---- MODULE Spec2Model ----
(***************************************************************************)
(* A model of nxbindgen's C-grammar generation engine                      *)
(* (src/nxbindgen/c99/pygenerator.py, class PyGenerator).                  *)
(*                                                                         *)
(* AST nodes are records with a "kind" field (the pycparser class name)    *)
(* and the attributes of that class.  Rendered text is a sequence of       *)
(* tokens (strings); statements render to sequences of line records.       *)
(* The generator object's fields are the variables opts, state, skip and   *)
(* indent_level; node is the AST handed to the pass, out what the pass     *)
(* returns, pc the position of the pass.                                   *)
(*                                                                         *)
(* The second half models the TypeScript-declaration engine                *)
(* (src/nxbindgen/typescript/sandbox.py, class PyGenerator) and the name   *)
(* casing utility (src/nxbindgen/typescript/utils.py).                     *)
(***************************************************************************)
EXTENDS Integers, Sequences, FiniteSets, TLC

VARIABLES
    node,          \* the AST being rendered (read-only input)
    opts,          \* constructor options of PyGenerator
    state,         \* self._state : set of Context flags
    skip,          \* self._skip  : set of node kinds not to emit
    indent_level,  \* self._indent_level
    pc,            \* position of the pass
    pos,           \* index of the child the traversal stands at
    out,           \* text returned by the visit
    crun,          \* execution of the C source construct (reference semantics)
    pyrun,         \* execution of the rendered host construct
    code,          \* typescript PyGenerator._code : list of output lines
    buffer,        \* typescript PyGenerator._buffer : the line being built
    imports,       \* typescript PyGenerator._imports : module -> set of symbols
                   \* (c99 PythonConverter._imports : list of lines)
    new_types,     \* typescript PyGenerator._new_types
    ctx,           \* the context dict handed to the outermost visit_node
    fs             \* the files written so far : a sequence of [path, content]

vars == <<node, opts, state, skip, indent_level, pc, pos, out, crun, pyrun,
          code, buffer, imports, new_types, ctx, fs>>

----------------------------------------------------------------------------
(* Bounds of the input space. *)

\* Largest number of binary operators in an input expression tree.
MaxOps == 2

----------------------------------------------------------------------------
(* Generic helpers. *)

\* An execution that has not started: variable values, the values seen by
\* each execution of the body, where the execution stands, and the pending
\* range of a ranged iteration.
VarNames == {"i", "j", "n"}

RunWith(nv) ==
    [env |-> [x \in VarNames |-> IF x = "n" THEN nv ELSE 0],
     trace |-> <<>>, status |-> "idle", next |-> 0, stop |-> 0]

NoRun == RunWith(0)

\* PyGenerator.__init__: the keyword options and the initial context.
DefaultOpts ==
    [reduce_parentheses |-> TRUE,
     use_type_hints |-> FALSE,
     keep_empty_decl |-> FALSE,
     type_hint_decl |-> FALSE]

\* What a visit yields when a visit method raises instead of returning text.
NotImplementedError == [form |-> "raise", error |-> "NotImplementedError"]

----------------------------------------------------------------------------
(* Expressions: visit_ID, visit_Constant, visit_BinaryOp.                  *)

ID(name) == [kind |-> "ID", name |-> name]

\* A literal: its spelling, character by character (<<"5">>, <<"5", "u">>).
Constant(value) == [kind |-> "Constant", value |-> value]

BinaryOp(op, left, right) == [kind |-> "BinaryOp", op |-> op, left |-> left, right |-> right]

\* The alternatives of RE_LITERAL_SUFFIX's second group.
LiteralSuffixes == {"ull", "ll", "ul", "l", "uz", "u", "z"}

\* The character class of RE_LITERAL_SUFFIX's first group (lower case).
LiteralChars ==
    {"0", "1", "2", "3", "4", "5", "6", "7", "8", "9",
     "a", "b", "c", "d", "e", "f", ".", "x"}

RECURSIVE JoinChars(_)
JoinChars(cs) == IF cs = <<>> THEN "" ELSE Head(cs) \o JoinChars(Tail(cs))

\* _convert_literal on the spelling of a literal.  The pattern matches when
\* the characters after the longest run of LiteralChars are one of the
\* suffixes (no suffix character is in the class, so the split is unique);
\* then a trailing float marker is dropped from a spelling holding a dot.
convert_literal(value) ==
    LET k == CHOOSE j \in 0 .. Len(value) :
                 /\ \A i \in 1 .. j : value[i] \in LiteralChars
                 /\ (j = Len(value) \/ value[j + 1] \notin LiteralChars)
        stripped == IF k >= 1 /\ JoinChars(SubSeq(value, k + 1, Len(value))) \in LiteralSuffixes
                    THEN SubSeq(value, 1, k)
                    ELSE value
    IN  IF (\E i \in 1 .. Len(stripped) : stripped[i] = ".")
           /\ stripped[Len(stripped)] = "f"
        THEN JoinChars(SubSeq(stripped, 1, Len(stripped) - 1))
        ELSE JoinChars(stripped)

precedence_map ==
    [o \in {"||", "&&", "|", "^", "&", "==", "!=", ">", ">=", "<", "<=",
            ">>", "<<", "+", "-", "*", "/", "%"} |->
        CASE o = "||" -> 0
          [] o = "&&" -> 1
          [] o = "|" -> 2
          [] o = "^" -> 3
          [] o = "&" -> 4
          [] o \in {"==", "!="} -> 5
          [] o \in {">", ">=", "<", "<="} -> 6
          [] o \in {">>", "<<"} -> 7
          [] o \in {"+", "-"} -> 8
          [] OTHER -> 9]

\* binary_op_map.get(op, op)
binary_op_map(op) ==
    CASE op = "||" -> "or"
      [] op = "&&" -> "and"
      [] OTHER -> op

is_simple_node(d) ==
    \/ d.kind = "Cast"
    \/ (d.kind = "UnaryOp" /\ d.op \in {"&", "*"})
    \/ d.kind \in {"Constant", "ID", "ArrayRef", "StructRef", "FuncCall"}

is_single_node(n) ==
    n.kind \in {"BinaryOp", "UnaryOp", "FuncCall", "Constant", "ID", "Cast", "StructRef"}

\* Mutation of LeftNeedsParens: equal precedence on the left is parenthesized.
LeftNeedsParensStrict(d, n, rp) ==
    ~ ( \/ is_simple_node(d)
        \/ (rp /\ d.kind = "BinaryOp" /\ precedence_map[d.op] > precedence_map[n.op]) )

\* The condition visit_BinaryOp passes to _parenthesize_if for n.left.
LeftNeedsParens(d, n, rp) ==
    ~ ( \/ is_simple_node(d)
        \/ (rp /\ d.kind = "BinaryOp" /\ precedence_map[d.op] >= precedence_map[n.op]) )

\* Mutation of RightNeedsParens: equal precedence on the right is left bare.
RightNeedsParensLoose(d, n, rp) ==
    ~ ( \/ is_simple_node(d)
        \/ (rp /\ d.kind = "BinaryOp" /\ precedence_map[d.op] >= precedence_map[n.op]) )

\* The condition visit_BinaryOp passes to _parenthesize_if for n.right.
RightNeedsParens(d, n, rp) ==
    ~ ( \/ is_simple_node(d)
        \/ (rp /\ d.kind = "BinaryOp" /\ precedence_map[d.op] > precedence_map[n.op]) )

\* _parenthesize_if, given the visited text s and the evaluated condition.
parenthesize_if(s, condition) ==
    IF condition THEN <<"(">> \o s \o <<")">> ELSE s

RECURSIVE visit_expr(_, _)
RECURSIVE visit_ExprList(_, _)

\* unary_op_map.get(op, op): the address and dereference operators vanish,
\* logical negation is respelled, every other operator is kept.
unary_op_map(op) ==
    IF op \in {"&", "*"} THEN <<>> ELSE IF op = "!" THEN <<"not">> ELSE <<op>>

\* visit_UnaryOp: every increment and decrement becomes a compound
\* assignment, wherever the node stands.
visit_UnaryOp(n, rp) ==
    IF n.op = "sizeof" THEN <<"sizeof", "(">> \o visit_expr(n.expr, rp) \o <<")">>
    ELSE LET operand == parenthesize_if(visit_expr(n.expr, rp), ~ is_simple_node(n.expr)) IN
         IF n.op \in {"p++", "++"} THEN operand \o <<"+=", "1">>
         ELSE IF n.op \in {"p--", "--"} THEN operand \o <<"-=", "1">>
         ELSE unary_op_map(n.op) \o operand

\* visit_Assignment: '%s %s %s' of the visited sides, the right one bare.
visit_Assignment(n, rp) ==
    visit_expr(n.lvalue, rp) \o <<n.op>> \o visit_expr(n.rvalue, rp)

\* visit_FuncCall: the callee, then the argument list in parentheses.
visit_FuncCall(n, rp) ==
    <<n.name, "(">> \o visit_ExprList(n.args, rp) \o <<")">>

\* visit_ExprList under a FuncCall: the visited arguments joined by commas.
visit_ExprList(exprs, rp) ==
    IF exprs = <<>> THEN <<>>
    ELSE IF Len(exprs) = 1 THEN visit_expr(exprs[1], rp)
    ELSE visit_expr(exprs[1], rp) \o <<",">> \o visit_ExprList(Tail(exprs), rp)

\* visit / _visit_expr on an expression node; rp is self._reduce_parentheses.
visit_expr(n, rp) ==
    CASE n.kind = "ID" -> <<n.name>>
      [] n.kind = "Constant" -> <<convert_literal(n.value)>>
      [] n.kind = "BinaryOp" ->
            parenthesize_if(visit_expr(n.left, rp), LeftNeedsParens(n.left, n, rp))
            \o <<binary_op_map(n.op)>>
            \o parenthesize_if(visit_expr(n.right, rp), RightNeedsParens(n.right, n, rp))
      [] n.kind = "UnaryOp" -> visit_UnaryOp(n, rp)
      [] n.kind = "Assignment" -> visit_Assignment(n, rp)
      [] n.kind = "FuncCall" -> visit_FuncCall(n, rp)

----------------------------------------------------------------------------
(* Input expressions. *)

\* Operators used in input trees: one pair of equal precedence, the two
\* respelled-or-kept ends of the table and levels in between.
ExprOps == {"||", "&", "==", "+", "-", "*"}

ExprLeaves == {ID("a"), Constant(<<"1", "u">>)}

RECURSIVE TreesOfSize(_)
TreesOfSize(k) ==
    IF k = 0 THEN ExprLeaves
    ELSE UNION { { BinaryOp(o, l, r) :
                     o \in ExprOps, l \in TreesOfSize(j), r \in TreesOfSize(k - 1 - j) } :
                 j \in 0 .. (k - 1) }

ExprTrees == UNION { TreesOfSize(k) : k \in 0 .. MaxOps }

InitExpr ==
    /\ node \in ExprTrees
    /\ opts \in { [DefaultOpts EXCEPT !.reduce_parentheses = b] : b \in BOOLEAN }
    /\ state = {}
    /\ skip = {}
    /\ indent_level = 0
    /\ pc = "start"
    /\ pos = 0
    /\ code = <<>>
    /\ buffer = <<>>
    /\ imports = <<>>
    /\ new_types = <<>>
    /\ ctx = [indent |-> 0]
    /\ fs = <<>>
    /\ out = <<>>
    /\ crun = NoRun
    /\ pyrun = NoRun

\* generator.visit(expr, parent=None) on a binary-expression tree.
VisitExpr ==
    /\ pc = "start"
    /\ out' = visit_expr(node, opts.reduce_parentheses)
    /\ pc' = "done"
    /\ UNCHANGED <<node, opts, state, skip, indent_level, crun, pyrun, pos,
                 code, buffer, imports, new_types, ctx, fs>>

NextExpr == VisitExpr

SpecExpr == InitExpr /\ [][NextExpr]_vars

----------------------------------------------------------------------------
(* Reading rendered expression text back: a precedence-climbing parser     *)
(* over the precedence table, every operator left-to-right associative.    *)

\* The C operator a rendered operator token spells.
COperator(tok) ==
    CASE tok = "or" -> "||"
      [] tok = "and" -> "&&"
      [] OTHER -> tok

IsOperatorToken(tok) == COperator(tok) \in DOMAIN precedence_map

LeafOfToken(tok) == IF tok = "a" THEN ID("a") ELSE Constant(<<tok>>)

RECURSIVE ParseExpr(_, _), ParseLoop(_, _, _), ParsePrimary(_)
ParsePrimary(toks) ==
    IF Head(toks) = "("
    THEN LET r == ParseExpr(Tail(toks), 0)
         IN  [tree |-> r.tree, rest |-> Tail(r.rest)]
    ELSE [tree |-> LeafOfToken(Head(toks)), rest |-> Tail(toks)]

ParseLoop(lhs, toks, minPrec) ==
    IF toks # <<>> /\ IsOperatorToken(Head(toks))
       /\ precedence_map[COperator(Head(toks))] >= minPrec
    THEN LET op == COperator(Head(toks))
             r == ParseExpr(Tail(toks), precedence_map[op] + 1)
         IN  ParseLoop(BinaryOp(op, lhs, r.tree), r.rest, minPrec)
    ELSE [tree |-> lhs, rest |-> toks]

ParseExpr(toks, minPrec) ==
    LET p == ParsePrimary(toks)
    IN  ParseLoop(p.tree, p.rest, minPrec)

Parse(toks) == ParseExpr(toks, 0).tree

\* The tree with every literal in its rendered spelling (suffix dropped).
RECURSIVE HostTree(_)
HostTree(n) ==
    CASE n.kind = "BinaryOp" -> BinaryOp(n.op, HostTree(n.left), HostTree(n.right))
      [] n.kind = "Constant" -> Constant(<<convert_literal(n.value)>>)
      [] OTHER -> n

\* Index of the ")" closing the "(" at index i of toks.
Balance(toks, i, j) ==
    Cardinality({k \in i .. j : toks[k] = "("}) - Cardinality({k \in i .. j : toks[k] = ")"})

MatchOf(toks, i) ==
    CHOOSE j \in (i + 1) .. Len(toks) :
        /\ Balance(toks, i, j) = 0
        /\ \A k \in i .. (j - 1) : Balance(toks, i, k) > 0

\* toks without the tokens at indices i and j.
Without(toks, i, j) ==
    SubSeq(toks, 1, i - 1) \o SubSeq(toks, i + 1, j - 1) \o SubSeq(toks, j + 1, Len(toks))

\* Every parenthesis pair of toks is needed: removing it changes the parse.
Minimal(toks) ==
    \A i \in 1 .. Len(toks) :
        toks[i] = "(" => Parse(Without(toks, i, MatchOf(toks, i))) # Parse(toks)

\* C1: the text visit_BinaryOp renders for a tree over simple leaves parses,
\* under the precedence table with left-to-right associativity, to the tree
\* it was rendered from (literals in their rendered spelling).
C1_RoundTrip ==
    pc = "done" => Parse(out) = HostTree(node)

\* C1 witness: `a - (b + c)` shaped input (equal precedence on the right)
\* has been rendered and kept its parentheses.
C1_Witness ==
    /\ pc = "done"
    /\ node.kind = "BinaryOp" /\ node.op = "-"
    /\ node.right.kind = "BinaryOp" /\ node.right.op = "+"
    /\ opts.reduce_parentheses
    /\ out[3] = "("

\* C2 (as stated): the rendering never holds a parenthesis pair whose removal
\* leaves the parse unchanged.
C2_MinimalAlways ==
    pc = "done" => Minimal(out)

\* C2 (amended): with reduce_parentheses enabled the rendering is minimal.
C2_MinimalWhenReducing ==
    (pc = "done" /\ opts.reduce_parentheses) => Minimal(out)

\* C2 witness: `a + b * c` shaped input rendered with no parentheses, and
\* a `(a + b) * c` shaped input exists alongside (checked by C1's witness
\* for the right-hand case).
C2_Witness ==
    /\ pc = "done"
    /\ opts.reduce_parentheses
    /\ node.kind = "BinaryOp" /\ node.op = "+"
    /\ node.right.kind = "BinaryOp" /\ node.right.op = "*"
    /\ node.left.kind = "ID"
    /\ Len(out) = 5

----------------------------------------------------------------------------
(* For loops: _for_to_range and visit_For.                                 *)

\* Largest integer literal / variable value in an input loop.
MaxInt == 3

\* Iterations after which an execution of a loop is cut off.
MaxIter == MaxInt + 2

None == [kind |-> "None"]

Assignment(op, lvalue, rvalue) ==
    [kind |-> "Assignment", op |-> op, lvalue |-> lvalue, rvalue |-> rvalue]

UnaryOp(op, expr) == [kind |-> "UnaryOp", op |-> op, expr |-> expr]

\* A declaration `int name = init` (init None when absent).
Decl(name, init) == [kind |-> "Decl", name |-> name, type |-> "int", init |-> init]

DeclList(decls) == [kind |-> "DeclList", decls |-> decls]

FuncCall(name) == [kind |-> "FuncCall", name |-> name, args |-> <<>>]

\* A call with arguments.
FuncCallArgs(name, args) == [kind |-> "FuncCall", name |-> name, args |-> args]

For(init, cond, next, stmt) ==
    [kind |-> "For", init |-> init, cond |-> cond, next |-> next, stmt |-> stmt]

\* Python's int() on the text of a decimal literal.
int(s) == CHOOSE i \in -1 .. (MaxInt + 2) : ToString(i) = s

\* types_map.get(c_type, c_type)
map_type(c_type) ==
    CASE c_type \in {"int32_t", "uint32_t", "int64_t", "uint64_t", "size_t"} -> "int"
      [] c_type = "List[uint8_t]" -> "bytes"
      [] c_type = "List[char]" -> "str"
      [] c_type = "double" -> "float"
      [] c_type = "void" -> "None"
      [] OTHER -> c_type

\* _generate_decl / _generate_type for a plain TypeDecl: the declared name,
\* annotated according to where the declaration stands (self._parent).
generate_decl(n, parentKind, o) ==
    IF parentKind = "ParamList"
    THEN IF o.use_type_hints THEN <<n.name, ":", map_type(n.type)>> ELSE <<n.name>>
    ELSE IF parentKind = "FuncDef"
    THEN IF o.use_type_hints THEN <<n.name, "->", map_type(n.type)>> ELSE <<n.name>>
    ELSE IF o.type_hint_decl THEN <<n.name, ":", map_type(n.type)>> ELSE <<n.name>>

\* visit_Decl, reading self._state, self._keep_empty_decl, self._type_hint_decl.
visit_Decl(n, no_type, parentKind, st, o) ==
    LET s == IF no_type THEN <<n.name>> ELSE generate_decl(n, parentKind, o) IN
    IF n.init # None
    THEN s \o <<"=">> \o visit_expr(n.init, o.reduce_parentheses)
    ELSE IF "FuncBody" \in st
    THEN IF o.keep_empty_decl
         THEN IF o.type_hint_decl
              THEN s \o <<"|", "None", "=", "None">>
              ELSE s \o <<"=", "None">>
         ELSE <<>>
    ELSE s

\* visit_DeclList: the first declaration, then the others without type.
RECURSIVE visit_DeclRest(_, _, _)
visit_DeclRest(decls, st, o) ==
    IF decls = <<>> THEN <<>>
    ELSE <<",">> \o visit_Decl(Head(decls), TRUE, "DeclList", st, o)
         \o visit_DeclRest(Tail(decls), st, o)

visit_DeclList(n, st, o) ==
    visit_Decl(n.decls[1], FALSE, "DeclList", st, o) \o visit_DeclRest(Tail(n.decls), st, o)

\* visit on a statement-level node of a for clause or a loop body.
visit_clause(n, parentKind, st, o) ==
    CASE n.kind = "None" -> <<>>
      [] n.kind = "Assignment" -> visit_Assignment(n, o.reduce_parentheses)
      [] n.kind = "UnaryOp" -> visit_UnaryOp(n, o.reduce_parentheses)
      [] n.kind = "DeclList" -> visit_DeclList(n, st, o)
      [] n.kind = "FuncCall" -> <<n.name, "(", ")">>
      [] OTHER -> visit_expr(n, o.reduce_parentheses)

\* The name the initializer of a canonical loop assigns.
InitName(n) ==
    IF n.init.kind = "DeclList" THEN n.init.decls[1].name ELSE n.init.lvalue.name

\* Reading the attribute `name` of a node whose class has none.
AttributeError == [form |-> "raise", error |-> "AttributeError"]

\* Whether a node has an attribute `name`: of the expression nodes
\* modelled, the identifier.
HasName(e) == e.kind = "ID"

\* The test of _for_to_range, clause by clause in the order Python
\* evaluates it: "true", "false", or "raise" when `.name` is read from a
\* node without it.
RangeTest(n) ==
    IF ~ ( /\ \/ n.init.kind = "Assignment"
              \/ (n.init.kind = "DeclList" /\ Len(n.init.decls) = 1)
           /\ n.next.kind = "UnaryOp"
           /\ n.next.op \in {"p++", "++p", "p--", "--p", "++", "--"}
           /\ n.cond.kind = "BinaryOp" )
    THEN "false"
    ELSE IF ~ HasName(n.next.expr) THEN "raise"
    ELSE IF n.init.kind = "Assignment" /\ ~ HasName(n.init.lvalue) THEN "raise"
    ELSE IF n.next.expr.name # InitName(n) THEN "false"
    ELSE IF ~ HasName(n.cond.left) THEN "raise"
    ELSE IF InitName(n) = n.cond.left.name THEN "true" ELSE "false"

\* The test of _for_to_range holds: all three clauses have the recognised
\* shape and name one variable.
IsRangeLoop(n) == RangeTest(n) = "true"

\* step = -1 if '--' in n.next.op else +1
RangeStep(n) == IF n.next.op \in {"p--", "--p", "--"} THEN -1 ELSE 1

\* Mutation of RangeStop: the inclusive comparisons get no adjustment.
RangeStopUnadjusted(n, o) == visit_expr(n.cond.right, o.reduce_parentheses)

\* The second argument of range(): the bound, moved by one step for the
\* inclusive comparisons.
RangeStop(n, o) ==
    LET cond_str == visit_expr(n.cond.right, o.reduce_parentheses)
        step == RangeStep(n) IN
    IF n.cond.op \in {">=", "<="}
    THEN IF n.cond.right.kind = "Constant"
         THEN <<ToString(int(cond_str[1]) + step)>>
         ELSE cond_str \o <<(IF step < 0 THEN "-" ELSE "+"), "1">>
    ELSE cond_str

\* _for_to_range: `for <var> in range(<start>, <stop>):`, or None.
for_to_range(n, o) ==
    IF RangeTest(n) = "raise" THEN AttributeError
    ELSE IF IsRangeLoop(n)
    THEN [form |-> "for_range",
          var |-> n.next.expr.name,
          start |-> IF n.init.kind = "DeclList"
                    THEN visit_expr(n.init.decls[1].init, o.reduce_parentheses)
                    ELSE visit_expr(n.init.rvalue, o.reduce_parentheses),
          stop |-> RangeStop(n, o)]
    ELSE None

\* visit_For.  The returned text is kept as the host statement it spells:
\*   for_range:  for <var> in range(<start>, <stop>): <body>
\*   while_true: <init> / while True: <body> / <next> / if not (<cond>): break
\* An absent clause contributes no line (the empty token sequence).
visit_For(n, st, o) ==
    LET range_str == for_to_range(n, o) IN
    IF range_str = AttributeError THEN AttributeError
    ELSE IF range_str # None
    THEN [form |-> "for_range", var |-> range_str.var,
          start |-> range_str.start, stop |-> range_str.stop,
          body |-> visit_clause(n.stmt, "For", st, o)]
    ELSE [form |-> "while_true",
          init |-> visit_clause(n.init, "For", st, o),
          body |-> visit_clause(n.stmt, "For", st, o),
          next |-> visit_clause(n.next, "For", st, o),
          cond |-> visit_clause(n.cond, "For", st, o)]

----------------------------------------------------------------------------
(* Reference semantics of the C loop and of the rendered host statement.   *)

\* Value of a C operand (a literal or a variable).
CValue(e, env) == IF e.kind = "Constant" THEN int(JoinChars(e.value)) ELSE env[e.name]

Compare(op, l, r) ==
    CASE op = "<" -> l < r
      [] op = "<=" -> l <= r
      [] op = ">" -> l > r
      [] op = ">=" -> l >= r
      [] op = "==" -> l = r
      [] op = "!=" -> l # r

\* The controlling expression of a C for statement; an omitted one is true.
CTest(cond, env) ==
    IF cond = None THEN TRUE
    ELSE Compare(cond.op, CValue(cond.left, env), CValue(cond.right, env))

\* Effect of a C clause (initializer or step) on the variables.
CExec(c, env) ==
    CASE c.kind = "None" -> env
      [] c.kind = "DeclList" ->
            [env EXCEPT ![c.decls[1].name] = CValue(c.decls[1].init, env)]
      [] c.kind = "Assignment" ->
            [env EXCEPT ![c.lvalue.name] =
                CASE c.op = "=" -> CValue(c.rvalue, env)
                  [] c.op = "+=" -> @ + CValue(c.rvalue, env)
                  [] c.op = "-=" -> @ - CValue(c.rvalue, env)]
      [] c.kind = "UnaryOp" ->
            [env EXCEPT ![c.expr.name] = IF c.op \in {"p++", "++"} THEN @ + 1 ELSE @ - 1]

\* Value of a host operand token: a variable name or a decimal literal.
PyAtom(tok, env) == IF tok \in VarNames THEN env[tok] ELSE int(tok)

\* Value of a host expression `x`, `x + y` or `x - y`.
PyValue(toks, env) ==
    IF Len(toks) = 1 THEN PyAtom(toks[1], env)
    ELSE IF toks[2] = "+" THEN PyAtom(toks[1], env) + PyAtom(toks[3], env)
    ELSE PyAtom(toks[1], env) - PyAtom(toks[3], env)

\* Truth of a host comparison `x <op> y`.
PyTest(toks, env) == Compare(toks[2], PyAtom(toks[1], env), PyAtom(toks[3], env))

\* Effect of a host statement line `x = e`, `x += e`, `x -= e`; an absent
\* line has none.
PyExec(toks, env) ==
    IF toks = <<>> THEN env
    ELSE LET val == PyValue(SubSeq(toks, 3, Len(toks)), env) IN
         [env EXCEPT ![toks[1]] =
            CASE toks[2] = "=" -> val
              [] toks[2] = "+=" -> @ + val
              [] toks[2] = "-=" -> @ - val]

----------------------------------------------------------------------------
(* Input loops. *)

ForNames ==
    {<<"i", "i", "i">>, <<"i", "j", "i">>, <<"i", "i", "j">>, <<"j", "i", "i">>}

\* The literal of a one-digit number.
Literal(k) == Constant(<<ToString(k)>>)

ForInits(v) ==
    { Assignment("=", ID(v), Literal(a)) : a \in 0 .. MaxInt }
    \cup { DeclList(<<Decl(v, Literal(a))>>) : a \in 0 .. MaxInt }

ForConds(v) ==
    { BinaryOp(op, ID(v), b) :
        op \in {"<", "<=", ">", ">="},
        b \in { Literal(k) : k \in 0 .. MaxInt } \cup {ID("n")} }

ForNexts(v) ==
    { UnaryOp(op, ID(v)) : op \in {"p++", "++", "p--", "--"} }
    \cup { Assignment(op, ID(v), Literal(1)) : op \in {"+=", "-="} }

ForLoops ==
    UNION { { For(i, c, x, FuncCall("body")) :
                i \in ForInits(t[1]), c \in ForConds(t[2]), x \in ForNexts(t[3]) } :
            t \in ForNames }
    \cup { For(None, c, x, FuncCall("body")) : c \in ForConds("i"), x \in ForNexts("i") }
    \cup { For(i, None, UnaryOp("p++", ID("i")), FuncCall("body")) : i \in ForInits("i") }
    \cup { For(i, c, None, FuncCall("body")) : i \in ForInits("i"), c \in ForConds("i") }

UsesN(n) == n.cond # None /\ n.cond.right = ID("n")

InitFor ==
    /\ node \in ForLoops
    /\ opts = DefaultOpts
    /\ state = {"FuncBody"}
    /\ skip = {}
    /\ indent_level = 1
    /\ pc = "start"
    /\ pos = 0
    /\ code = <<>>
    /\ buffer = <<>>
    /\ imports = <<>>
    /\ new_types = <<>>
    /\ ctx = [indent |-> 0]
    /\ fs = <<>>
    /\ out = <<>>
    /\ crun \in { RunWith(nv) : nv \in IF UsesN(node) THEN 0 .. MaxInt ELSE {0} }
    /\ pyrun = crun

\* generator.visit(for_node): visit_For on a loop inside a function body.
VisitFor ==
    /\ pc = "start"
    /\ out' = visit_For(node, state, opts)
    /\ pc' = "run_c"
    /\ UNCHANGED <<node, opts, state, skip, indent_level, crun, pyrun, pos,
                 code, buffer, imports, new_types, ctx, fs>>

\* C: the initializer runs once.
CLoopEnter ==
    /\ pc = "run_c" /\ crun.status = "idle"
    /\ crun' = [crun EXCEPT !.env = CExec(node.init, @), !.status = "loop"]
    /\ UNCHANGED <<node, opts, state, skip, indent_level, pc, out, pyrun, pos,
                 code, buffer, imports, new_types, ctx, fs>>

\* C: the test holds: the body runs, then the step.
CLoopIter ==
    /\ pc = "run_c" /\ crun.status = "loop"
    /\ CTest(node.cond, crun.env)
    /\ Len(crun.trace) < MaxIter
    /\ crun' = [crun EXCEPT !.trace = Append(@, crun.env),
                            !.env = CExec(node.next, @)]
    /\ UNCHANGED <<node, opts, state, skip, indent_level, pc, out, pyrun, pos,
                 code, buffer, imports, new_types, ctx, fs>>

\* C: the test fails: the loop is left.
CLoopExit ==
    /\ pc = "run_c" /\ crun.status = "loop"
    /\ ~CTest(node.cond, crun.env)
    /\ crun' = [crun EXCEPT !.status = "done"]
    /\ pc' = "run_py"
    /\ UNCHANGED <<node, opts, state, skip, indent_level, out, pyrun, pos,
                 code, buffer, imports, new_types, ctx, fs>>

\* The C loop is still running after MaxIter iterations: observation ends.
CLoopCut ==
    /\ pc = "run_c" /\ crun.status = "loop"
    /\ CTest(node.cond, crun.env)
    /\ Len(crun.trace) = MaxIter
    /\ crun' = [crun EXCEPT !.status = "cut"]
    /\ pc' = "run_py"
    /\ UNCHANGED <<node, opts, state, skip, indent_level, out, pyrun, pos,
                 code, buffer, imports, new_types, ctx, fs>>

\* Host: range(start, stop) is evaluated once; the while form runs <init>.
PyLoopEnter ==
    /\ pc = "run_py" /\ pyrun.status = "idle"
    /\ pyrun' = IF out.form = "for_range"
                THEN [pyrun EXCEPT !.next = PyValue(out.start, pyrun.env),
                                   !.stop = PyValue(out.stop, pyrun.env),
                                   !.status = "loop"]
                ELSE [pyrun EXCEPT !.env = PyExec(out.init, @), !.status = "loop"]
    /\ UNCHANGED <<node, opts, state, skip, indent_level, pc, out, crun, pos,
                 code, buffer, imports, new_types, ctx, fs>>

\* Host: range(start, stop) has a next value (it counts upwards by one):
\* it is bound to the variable and the body runs.
PyRangeIter ==
    /\ pc = "run_py" /\ pyrun.status = "loop" /\ out.form = "for_range"
    /\ pyrun.next < pyrun.stop
    /\ LET env == [pyrun.env EXCEPT ![out.var] = pyrun.next] IN
       pyrun' = [pyrun EXCEPT !.env = env, !.trace = Append(@, env), !.next = @ + 1]
    /\ UNCHANGED <<node, opts, state, skip, indent_level, pc, out, crun, pos,
                 code, buffer, imports, new_types, ctx, fs>>

\* Host: range(start, stop) is exhausted.
PyRangeExit ==
    /\ pc = "run_py" /\ pyrun.status = "loop" /\ out.form = "for_range"
    /\ pyrun.next >= pyrun.stop
    /\ pyrun' = [pyrun EXCEPT !.status = "done"]
    /\ pc' = "done"
    /\ UNCHANGED <<node, opts, state, skip, indent_level, out, crun, pos,
                 code, buffer, imports, new_types, ctx, fs>>

\* Host: one round of `while True:`: the body, the step, then the
\* `if not (<cond>): break` line.
PyWhileIter ==
    /\ pc = "run_py" /\ pyrun.status = "loop" /\ out.form = "while_true"
    /\ Len(pyrun.trace) < MaxIter
    /\ LET env == PyExec(out.next, pyrun.env)
           leave == out.cond # <<>> /\ ~PyTest(out.cond, env) IN
       /\ pyrun' = [pyrun EXCEPT !.trace = Append(@, pyrun.env),
                                 !.env = env,
                                 !.status = IF leave THEN "done" ELSE "loop"]
       /\ pc' = IF leave THEN "done" ELSE pc
    /\ UNCHANGED <<node, opts, state, skip, indent_level, out, crun, pos,
                 code, buffer, imports, new_types, ctx, fs>>

\* The host loop is still running after MaxIter iterations: observation ends.
PyWhileCut ==
    /\ pc = "run_py" /\ pyrun.status = "loop" /\ out.form = "while_true"
    /\ Len(pyrun.trace) = MaxIter
    /\ pyrun' = [pyrun EXCEPT !.status = "cut"]
    /\ pc' = "done"
    /\ UNCHANGED <<node, opts, state, skip, indent_level, out, crun, pos,
                 code, buffer, imports, new_types, ctx, fs>>

NextFor ==
    \/ VisitFor
    \/ CLoopEnter \/ CLoopIter \/ CLoopExit \/ CLoopCut
    \/ PyLoopEnter \/ PyRangeIter \/ PyRangeExit \/ PyWhileIter \/ PyWhileCut

SpecFor == InitFor /\ [][NextFor]_vars

\* The values of variable v at each execution of the body.
ValuesOf(run, v) == [k \in 1 .. Len(run.trace) |-> run.trace[k][v]]

\* `for (v = a; v < b; v++)` / `for (v = a; v <= b; v++)`, either spelling of
\* the initializer and of the increment.
IsAscending(n) ==
    /\ n.init # None /\ n.cond # None /\ n.next # None
    /\ n.next.kind = "UnaryOp" /\ n.next.op \in {"p++", "++"}
    /\ n.cond.op \in {"<", "<="}
    /\ n.next.expr.name = InitName(n) /\ n.cond.left.name = InitName(n)

\* `for (v = a; v > b; v--)` / `for (v = a; v >= b; v--)`.
IsDescending(n) ==
    /\ n.init # None /\ n.cond # None /\ n.next # None
    /\ n.next.kind = "UnaryOp" /\ n.next.op \in {"p--", "--"}
    /\ n.cond.op \in {">", ">="}
    /\ n.next.expr.name = InitName(n) /\ n.cond.left.name = InitName(n)

C4_DescendingRange ==
    (pc = "done" /\ IsDescending(node)) =>
        /\ crun.status = "done" /\ pyrun.status = "done"
        /\ ValuesOf(pyrun, InitName(node)) = ValuesOf(crun, InitName(node))

\* C5: a loop rendered in the fallback form runs its body as many times as
\* the C loop does, whenever both executions run to completion.
C5_FallbackSameCount ==
    (pc = "done" /\ out.form = "while_true"
        /\ crun.status = "done" /\ pyrun.status = "done") =>
        Len(pyrun.trace) = Len(crun.trace)

----------------------------------------------------------------------------
(* Switch statements: _has_fallthrough, _switch_to_ifs, visit_Switch.      *)

\* Largest number of labels (case / default) in an input switch.
MaxLabels == 3

Break == [kind |-> "Break"]

\* `if (cond) iftrue` without an else branch.
If(cond, iftrue) == [kind |-> "If", cond |-> cond, iftrue |-> iftrue]

Case(expr, stmts) == [kind |-> "Case", expr |-> expr, stmts |-> stmts]

Default(stmts) == [kind |-> "Default", stmts |-> stmts]

\* switch (cond) { stmt[1] ... stmt[n] }: stmt is the list of labels.
Switch(cond, stmt) == [kind |-> "Switch", cond |-> cond, stmt |-> stmt]

\* A rendered line: its tokens and its depth below the enclosing block.
Line(depth, toks) == [depth |-> depth, toks |-> toks]

\* visit(): a node whose class name is in self._skip renders as ''.
visit_stmt_text(n, sk, o) ==
    IF n.kind \in sk THEN <<>>
    ELSE CASE n.kind = "Break" -> <<"break">>
           [] n.kind = "FuncCall" -> <<n.name, "(", ")">>
           [] OTHER -> visit_expr(n, o.reduce_parentheses)

\* _generate_stmt on a statement of a case: the lines it contributes.  A
\* skipped Break still contributes its (blank) line; an expression
\* statement that renders empty contributes none.
generate_stmt(n, sk, o) ==
    CASE n.kind = "If" ->
            <<Line(0, <<"if">>
                          \o parenthesize_if(visit_expr(n.cond, o.reduce_parentheses),
                                              ~is_single_node(n.cond))
                          \o <<":">>),
              Line(1, visit_stmt_text(n.iftrue, sk, o))>>
      [] n.kind = "FuncCall" ->
            IF visit_stmt_text(n, sk, o) # <<>>
            THEN <<Line(0, visit_stmt_text(n, sk, o))>> ELSE <<>>
      [] OTHER -> <<Line(0, visit_stmt_text(n, sk, o))>>

RECURSIVE visit_Compound(_, _, _)
\* visit_Compound on a list of block items: the statements' lines in order.
visit_Compound(items, sk, o) ==
    IF items = <<>> THEN <<>>
    ELSE generate_stmt(Head(items), sk, o) \o visit_Compound(Tail(items), sk, o)

\* _nstrip: lines that are empty or whitespace only are removed.
nstrip(lines) == SelectSeq(lines, LAMBDA l : l.toks # <<>>)

\* The scan of one case's statements in _has_fallthrough:
\* "raise" when a statement follows a break, else whether a break was seen.
RECURSIVE ScanForBreak(_, _)
ScanForBreak(stmts, has_break) ==
    IF stmts = <<>> THEN (IF has_break THEN "break" ELSE "nobreak")
    ELSE IF Head(stmts).kind = "Break" THEN ScanForBreak(Tail(stmts), TRUE)
    ELSE IF has_break THEN "raise"
    ELSE ScanForBreak(Tail(stmts), has_break)

\* _has_fallthrough over the labels of a switch: "true", "false" or "raise".
RECURSIVE has_fallthrough(_)
has_fallthrough(labels) ==
    IF labels = <<>> THEN "false"
    ELSE IF Head(labels).kind = "Case"
    THEN LET r == ScanForBreak(Head(labels).stmts, FALSE) IN
         IF r = "raise" THEN "raise"
         ELSE IF r = "nobreak" THEN "true"
         ELSE has_fallthrough(Tail(labels))
    ELSE IF Head(labels).kind = "Default" THEN has_fallthrough(Tail(labels))
    ELSE "raise"

\* The locals of _switch_to_ifs: s (the guards emitted so far, each with the
\* block under it), idx, shared, blocks, has_break, and whether it raised.
IfsStart ==
    [s |-> <<>>, idx |-> 0, shared |-> <<>>, blocks |-> <<>>,
     has_break |-> FALSE, err |-> FALSE]

\* One guard with the block emitted under it.
Entry(kw, guard, block) == [kw |-> kw, guard |-> guard, block |-> block]

\* The guards emitted when a break is met: one per pending label, each
\* followed by shared[offset:].
EmitBlocks(l, sk, o) ==
    [k \in 1 .. Len(l.blocks) |->
        Entry(IF k = 1 THEN "if" ELSE "elif",
              visit_expr(l.blocks[k].cond, o.reduce_parentheses),
              visit_Compound(SubSeq(l.shared, l.blocks[k].offset + 1, Len(l.shared)),
                             sk, o))]

\* idx after `for idx, (cond, offset) in enumerate(blocks)`: the loop
\* variable is the function's idx, left at the last index enumerated.
IdxAfterEmit(l) == IF Len(l.blocks) > 0 THEN Len(l.blocks) - 1 ELSE l.idx

\* The loop over one case's statements in _switch_to_ifs.
RECURSIVE ScanCase(_, _, _, _)
ScanCase(stmts, l, sk, o) ==
    IF stmts = <<>> \/ l.err THEN l
    ELSE LET sub == Head(stmts) IN
         ScanCase(Tail(stmts),
                  IF sub.kind = "Break"
                  THEN [l EXCEPT !.has_break = TRUE,
                                 !.s = @ \o EmitBlocks(l, sk, o),
                                 !.idx = IdxAfterEmit(l),
                                 !.blocks = <<>>]
                  ELSE IF l.has_break
                  THEN [l EXCEPT !.err = TRUE]
                  ELSE [l EXCEPT !.shared = Append(@, sub), !.idx = @ + 1],
                  sk, o)

\* The loop over the labels in _switch_to_ifs.
RECURSIVE ScanLabels(_, _, _, _, _)
ScanLabels(labels, cond, l, sk, o) ==
    IF labels = <<>> \/ l.err THEN l
    ELSE LET stmt == Head(labels) IN
         ScanLabels(Tail(labels), cond,
                    CASE stmt.kind = "Case" ->
                            ScanCase(stmt.stmts,
                                     [l EXCEPT !.blocks = Append(@,
                                                    [cond |-> BinaryOp("==", cond, stmt.expr),
                                                     offset |-> l.idx]),
                                               !.has_break = FALSE],
                                     sk, o)
                      [] stmt.kind = "Default" ->
                            [l EXCEPT !.s = Append(@,
                                Entry("else", <<>>,
                                      visit_Compound(stmt.stmts, sk \cup {"Break"}, o)))]
                      [] OTHER -> [l EXCEPT !.err = TRUE],
                    sk, o)

\* _switch_to_ifs: the locals at return (err when it raised).
switch_to_ifs(n, sk, o) ==
    IF n.cond.kind \notin {"ID", "Constant"}
    THEN [IfsStart EXCEPT !.err = TRUE]
    ELSE ScanLabels(n.stmt, n.cond, IfsStart, sk, o)

\* The arms of the match form: visit_Case / visit_Default on each label,
\* with Break skipped.
MatchArms(labels, sk, o) ==
    [k \in 1 .. Len(labels) |->
        Entry("case",
              IF labels[k].kind = "Case"
              THEN visit_expr(labels[k].expr, o.reduce_parentheses) ELSE <<"_">>,
              visit_Compound(labels[k].stmts, sk \cup {"Break"}, o))]

\* _nstrip applied to the text of every block.
StripEntries(entries) ==
    [k \in 1 .. Len(entries) |-> [entries[k] EXCEPT !.block = nstrip(@)]]

\* visit_Switch.  The returned text is kept as its sequence of guards
\* (`case <e>:` arms under `match <subject>:`, or `if` / `elif` / `else:`),
\* each with the lines under it.
visit_Switch(n, sk, o) ==
    LET hf == has_fallthrough(n.stmt) IN
    IF hf = "raise" THEN NotImplementedError
    ELSE IF hf = "false"
    THEN [form |-> "match",
          subject |-> parenthesize_if(visit_expr(n.cond, o.reduce_parentheses),
                                      ~is_single_node(n.cond)),
          entries |-> StripEntries(MatchArms(n.stmt, sk, o))]
    ELSE LET l == switch_to_ifs(n, sk, o) IN
         IF l.err THEN NotImplementedError
         ELSE [form |-> "ifs", subject |-> <<>>, entries |-> StripEntries(l.s)]

----------------------------------------------------------------------------
(* Input switches. *)

\* The plain statement of label k.
Stmt(k) == FuncCall("s" \o ToString(k))

CondBreak == If(ID("c"), Break)

\* Statement lists of label k: empty, plain, break-terminated, with a
\* conditional break, with a statement after the break.
LabelBodies(k) ==
    { <<>>, <<Stmt(k)>>, <<Stmt(k), Break>>, <<Break>>,
      <<CondBreak, Stmt(k)>>, <<CondBreak, Stmt(k), Break>>, <<Break, Stmt(k)>> }

\* Label lists of length len: cases numbered by position, with a default
\* at position d (d = 0: no default).
RECURSIVE LabelLists(_, _)
LabelLists(len, d) ==
    IF len = 0 THEN {<<>>}
    ELSE { Append(p, IF len = d THEN Default(b) ELSE Case(Literal(len), b)) :
             p \in LabelLists(len - 1, d), b \in LabelBodies(len) }

Switches ==
    { Switch(c, ls) :
        c \in {ID("x"), BinaryOp("+", ID("x"), Literal(1))},
        ls \in UNION { LabelLists(len, d) : len \in 1 .. MaxLabels, d \in 0 .. MaxLabels } }

InitSwitch ==
    /\ node \in Switches
    /\ opts = DefaultOpts
    /\ state = {"FuncBody"}
    /\ skip = {}
    /\ indent_level = 1
    /\ pc = "start"
    /\ pos = 0
    /\ code = <<>>
    /\ buffer = <<>>
    /\ imports = <<>>
    /\ new_types = <<>>
    /\ ctx = [indent |-> 0]
    /\ fs = <<>>
    /\ out = <<>>
    /\ crun = NoRun
    /\ pyrun = NoRun

\* generator.visit(switch_node): visit_Switch on a switch inside a function
\* body, returning text in the match form ...
VisitSwitchMatch ==
    /\ pc = "start"
    /\ has_fallthrough(node.stmt) = "false"
    /\ out' = visit_Switch(node, skip, opts)
    /\ pc' = "done"
    /\ UNCHANGED <<node, opts, state, skip, indent_level, crun, pyrun, pos,
                 code, buffer, imports, new_types, ctx, fs>>

\* ... or in the if/elif form ...
VisitSwitchIfs ==
    /\ pc = "start"
    /\ has_fallthrough(node.stmt) = "true"
    /\ ~switch_to_ifs(node, skip, opts).err
    /\ out' = visit_Switch(node, skip, opts)
    /\ pc' = "done"
    /\ UNCHANGED <<node, opts, state, skip, indent_level, crun, pyrun, pos,
                 code, buffer, imports, new_types, ctx, fs>>

\* ... or raising NotImplementedError out of the pass.
VisitSwitchRaise ==
    /\ pc = "start"
    /\ visit_Switch(node, skip, opts) = NotImplementedError
    /\ out' = NotImplementedError
    /\ pc' = "raised"
    /\ UNCHANGED <<node, opts, state, skip, indent_level, crun, pyrun, pos,
                 code, buffer, imports, new_types, ctx, fs>>

NextSwitch == VisitSwitchMatch \/ VisitSwitchIfs \/ VisitSwitchRaise

SpecSwitch == InitSwitch /\ [][NextSwitch]_vars

----------------------------------------------------------------------------
(* C semantics of a switch body, for stating the claims.                   *)

\* The statement list holds an unconditional (top-level) break.
HasTopBreak(stmts) == \E j \in 1 .. Len(stmts) : stmts[j].kind = "Break"

\* Some label other than the last lacks an unconditional break, so control
\* runs on into the label that follows it.
FallsThrough(labels) ==
    \E k \in 1 .. (Len(labels) - 1) : ~HasTopBreak(labels[k].stmts)

\* Some label holds a break nested in an if.
HasConditionalBreak(labels) ==
    \E k \in 1 .. Len(labels) :
        \E j \in 1 .. Len(labels[k].stmts) : labels[k].stmts[j].kind = "If"

\* The statements of labels k, k+1, ... in source order.
RECURSIVE FromLabel(_, _)
FromLabel(labels, k) ==
    IF k > Len(labels) THEN <<>> ELSE labels[k].stmts \o FromLabel(labels, k + 1)

\* The statements before the first unconditional break.
RECURSIVE UpToBreak(_)
UpToBreak(stmts) ==
    IF stmts = <<>> \/ Head(stmts).kind = "Break" THEN <<>>
    ELSE <<Head(stmts)>> \o UpToBreak(Tail(stmts))

\* What C executes when the switch enters at label k.
EnteredAt(labels, k) == UpToBreak(FromLabel(labels, k))

\* A switch of break-terminated fallthrough regions: cases only, no
\* conditional break, nothing after a break, the last label ends in a break.
IsRegions(labels) ==
    /\ \A k \in 1 .. Len(labels) :
          labels[k].kind = "Case" /\ ScanForBreak(labels[k].stmts, FALSE) # "raise"
    /\ ~HasConditionalBreak(labels)
    /\ HasTopBreak(labels[Len(labels)].stmts)

\* C6: the match form, with no break emitted in it, is used exactly when no
\* label (case or default) falls through into a following label; otherwise
\* the if/elif form is used.
C6_MatchIffNoFallthrough ==
    pc = "done" =>
        /\ out.form = "match" <=> ~FallsThrough(node.stmt)
        /\ out.form = "match" =>
              \A k \in 1 .. Len(out.entries) :
                  \A j \in 1 .. Len(out.entries[k].block) :
                      out.entries[k].block[j] # Line(0, <<"break">>)

\* C7: in the if/elif form of a switch made of break-terminated regions,
\* the block under the guard of case k holds exactly the statements C
\* executes when entering at case k.
C7_BlockIsEnteredStatements ==
    (pc = "done" /\ out.form = "ifs" /\ IsRegions(node.stmt)) =>
        \A e \in 1 .. Len(out.entries) :
            \A k \in 1 .. Len(node.stmt) :
                out.entries[e].guard = <<"x", "==", ToString(k)>> =>
                    out.entries[e].block =
                        nstrip(visit_Compound(EnteredAt(node.stmt, k), skip, opts))

\* C8: a switch with fallthrough holding a conditional break is not
\* rendered: the pass raises.
C8_ConditionalBreakRaises ==
    (pc # "start" /\ FallsThrough(node.stmt) /\ HasConditionalBreak(node.stmt)) =>
        pc = "raised"

----------------------------------------------------------------------------
(* Declarations, labels and gotos inside a translation unit:               *)
(* visit_FileAST, visit_FuncDef, visit_Compound, visit_Decl, visit_Label,  *)
(* visit_Goto.                                                             *)

\* Largest number of block items in the body of an input function.
MaxItems == 2

Goto(name) == [kind |-> "Goto", name |-> name]

Label(name, stmt) == [kind |-> "Label", name |-> name, stmt |-> stmt]

\* A function definition: its name, its parameter declarations and the
\* block items of its body.
FuncDef(name, params, body) ==
    [kind |-> "FuncDef", name |-> name, params |-> params, body |-> body]

FileAST(ext) == [kind |-> "FileAST", ext |-> ext]

\* What a statement visit yields: text (a sequence of lines) or a raise.
Text(lines) == [form |-> "text", lines |-> lines]

\* visit(): `self._state |= flag` before the visit method runs.
FlagOnEntry(st, flag) == st \cup {flag}

\* Mutation of FlagOnExit: the flag is left set.
FlagOnExitLeaked(st, flag) == st

\* visit(): `self._state &= ~flag` after the visit method returns.
FlagOnExit(st, flag) == st \ {flag}

\* Mutation of visit_Goto: the visit raises.
visit_GotoRaising(n) == NotImplementedError

\* visit_Goto: `env.goto_<name>()`.
visit_Goto(n) == Text(<<Line(0, <<"env", ".", "goto_" \o n.name, "(", ")">>)>>)

\* visit_Label: the `# TODO: label=<name>` line, then the labelled
\* statement through _generate_stmt and _nstrip.
visit_Label(n, sk, o) ==
    Text(<<Line(0, <<"#", "TODO:", "label=" \o n.name>>)>>
         \o nstrip(generate_stmt(n.stmt, sk, o)))

\* Lines moved d indentation levels to the right.
Shift(lines, d) == [k \in 1 .. Len(lines) |-> [lines[k] EXCEPT !.depth = @ + d]]

\* The text visit_Switch returns, as lines: `match <subject>:` over its
\* `case` arms, or the chain of guards; a raise stays a raise.
RECURSIVE EntryLines(_, _)
EntryLines(entries, depth) ==
    IF entries = <<>> THEN <<>>
    ELSE <<Line(depth, <<Head(entries).kw>> \o Head(entries).guard \o <<":">>)>>
         \o Shift(Head(entries).block, depth + 1)
         \o EntryLines(Tail(entries), depth)

SwitchText(r) ==
    IF r.form = "raise" THEN r
    ELSE IF r.form = "match"
    THEN Text(<<Line(0, <<"match">> \o r.subject \o <<":">>)>> \o EntryLines(r.entries, 1))
    ELSE Text(EntryLines(r.entries, 0))

\* _generate_stmt on a block item of a function body.
generate_body_stmt(n, st, sk, o) ==
    CASE n.kind = "Decl" ->
            LET ret == visit_Decl(n, FALSE, "Compound", st, o) IN
            Text(IF ret # <<>> THEN <<Line(0, ret)>> ELSE <<>>)
      [] n.kind = "Goto" -> visit_Goto(n)
      [] n.kind = "Label" -> visit_Label(n, sk, o)
      [] n.kind = "Switch" -> SwitchText(visit_Switch(n, sk, o))
      [] OTHER -> Text(generate_stmt(n, sk, o))

\* One visited node with the context it was visited in and its text.
Piece(where, n, st, text) == [where |-> where, node |-> n, st |-> st, text |-> text]

----------------------------------------------------------------------------
(* Input translation units: a global, a function, a second global.         *)

BodyItems ==
    { Decl("x", None), Decl("y", Literal(1)), Goto("L"),
      Label("L", FuncCall("s")), FuncCall("s") }

RECURSIVE BodiesOfLen(_)
BodiesOfLen(len) ==
    IF len = 0 THEN {<<>>}
    ELSE { Append(b, i) : b \in BodiesOfLen(len - 1), i \in BodyItems }

Globals == { Decl("g", None), Decl("g", Literal(1)) }

Units ==
    { FileAST(<<g, FuncDef("f", <<Decl("p", None)>>, b), Decl("h", None)>>) :
        g \in Globals, b \in UNION { BodiesOfLen(len) : len \in 0 .. MaxItems } }

InitFunc ==
    /\ node \in Units
    /\ opts \in [reduce_parentheses : {TRUE}, use_type_hints : BOOLEAN,
                 keep_empty_decl : BOOLEAN, type_hint_decl : BOOLEAN]
    /\ state = {}
    /\ skip = {}
    /\ indent_level = 0
    /\ pc = "ext"
    /\ pos = <<1, 0>>
    /\ code = <<>>
    /\ buffer = <<>>
    /\ imports = <<>>
    /\ new_types = <<>>
    /\ ctx = [indent |-> 0]
    /\ fs = <<>>
    /\ out = <<>>
    /\ crun = NoRun
    /\ pyrun = NoRun

\* visit_FileAST: a file-scope declaration (not a function or struct
\* declaration) is visited with no flag.
FileDecl ==
    /\ pc = "ext" /\ pos[1] <= Len(node.ext)
    /\ node.ext[pos[1]].kind = "Decl"
    /\ out' = Append(out, Piece("file", node.ext[pos[1]], state,
                                visit_Decl(node.ext[pos[1]], FALSE, "FileAST", state, opts)))
    /\ pos' = <<pos[1] + 1, 0>>
    /\ UNCHANGED <<node, opts, state, skip, indent_level, pc, crun, pyrun,
                 code, buffer, imports, new_types, ctx, fs>>

\* visit_FuncDef: visit(n.decl, flag=Context.FuncProto) is entered.
FuncDefProto ==
    /\ pc = "ext" /\ pos[1] <= Len(node.ext)
    /\ node.ext[pos[1]].kind = "FuncDef"
    /\ state' = FlagOnEntry(state, "FuncProto")
    /\ pc' = "params"
    /\ UNCHANGED <<node, opts, skip, indent_level, pos, out, crun, pyrun,
                 code, buffer, imports, new_types, ctx, fs>>

\* _generate_type visits the parameter list with flag=Context.FuncArgs;
\* then the visit of n.decl returns and visit_FuncDef resets the indent.
FuncDefParams ==
    /\ pc = "params"
    /\ LET f == node.ext[pos[1]]
           st == FlagOnEntry(state, "FuncArgs") IN
       /\ out' = out \o [k \in 1 .. Len(f.params) |->
                            Piece("param", f.params[k], st,
                                  visit_Decl(f.params[k], FALSE, "ParamList", st, opts))]
       /\ state' = FlagOnExit(FlagOnExit(st, "FuncArgs"), "FuncProto")
    /\ indent_level' = 0
    /\ pc' = "enter_body"
    /\ UNCHANGED <<node, opts, skip, pos, crun, pyrun,
                 code, buffer, imports, new_types, ctx, fs>>

\* visit(n.body, flag=Context.FuncBody): visit_Compound is entered.
FuncDefBody ==
    /\ pc = "enter_body"
    /\ state' = FlagOnEntry(state, "FuncBody")
    /\ indent_level' = indent_level + 1
    /\ pc' = "body"
    /\ pos' = <<pos[1], 1>>
    /\ UNCHANGED <<node, opts, skip, out, crun, pyrun,
                 code, buffer, imports, new_types, ctx, fs>>

\* visit_Compound: the next block item goes through _generate_stmt.
BodyItem ==
    /\ pc = "body" /\ pos[2] <= Len(node.ext[pos[1]].body)
    /\ LET item == node.ext[pos[1]].body[pos[2]]
           r == generate_body_stmt(item, state, skip, opts) IN
       IF r.form = "raise"
       THEN /\ pc' = "raised"
            /\ UNCHANGED <<out, pos>>
       ELSE /\ out' = Append(out, Piece("body", item, state, r.lines))
            /\ pos' = <<pos[1], pos[2] + 1>>
            /\ pc' = pc
    /\ UNCHANGED <<node, opts, state, skip, indent_level, crun, pyrun,
                 code, buffer, imports, new_types, ctx, fs>>

\* visit_Compound returns, the visit of n.body returns.
FuncDefReturn ==
    /\ pc = "body" /\ pos[2] > Len(node.ext[pos[1]].body)
    /\ indent_level' = indent_level - 1
    /\ state' = FlagOnExit(state, "FuncBody")
    /\ pc' = "ext"
    /\ pos' = <<pos[1] + 1, 0>>
    /\ UNCHANGED <<node, opts, skip, out, crun, pyrun,
                 code, buffer, imports, new_types, ctx, fs>>

\* visit_FileAST returns.
FileReturn ==
    /\ pc = "ext" /\ pos[1] > Len(node.ext)
    /\ pc' = "done"
    /\ UNCHANGED <<node, opts, state, skip, indent_level, pos, out, crun, pyrun,
                 code, buffer, imports, new_types, ctx, fs>>

NextFunc ==
    \/ FileDecl \/ FuncDefProto \/ FuncDefParams \/ FuncDefBody
    \/ BodyItem \/ FuncDefReturn \/ FileReturn

SpecFunc == InitFunc /\ [][NextFunc]_vars

IsEmptyLocal(p) ==
    p.node.kind = "Decl" /\ p.node.init = None /\ "FuncBody" \in p.st

\* A declaration with an initializer, or one visited as a parameter or at
\* file scope, has text.
AlwaysRendered ==
    \A k \in 1 .. Len(out) :
        (out[k].node.kind = "Decl"
            /\ (out[k].node.init # None \/ out[k].where \in {"param", "file"})) =>
            out[k].text # <<>>

\* C10 (as stated): an uninitialized declaration visited with the
\* function-body flag set renders empty when keep_empty_declarations is off
\* and as `<name> = None` when it is on; other declarations always render.
C10_ElisionAsStated ==
    /\ \A k \in 1 .. Len(out) :
          IsEmptyLocal(out[k]) =>
              out[k].text = IF opts.keep_empty_decl
                            THEN <<Line(0, <<out[k].node.name, "=", "None">>)>>
                            ELSE <<>>
    /\ AlwaysRendered

\* C10 (amended): as stated, except that with type_hint_declarations also
\* on the placeholder is `<name>: <type> | None = None`.
C10_Elision ==
    /\ \A k \in 1 .. Len(out) :
          IsEmptyLocal(out[k]) =>
              out[k].text =
                  IF ~opts.keep_empty_decl THEN <<>>
                  ELSE IF opts.type_hint_decl
                  THEN <<Line(0, <<out[k].node.name, ":", out[k].node.type,
                                   "|", "None", "=", "None">>)>>
                  ELSE <<Line(0, <<out[k].node.name, "=", "None">>)>>
    /\ AlwaysRendered

\* C10 witness: a pass in defensive mode has rendered an uninitialized
\* local as a placeholder, after a parameter and before the file-scope
\* declaration that follows the function.
C10_Witness ==
    /\ pc = "done" /\ opts.keep_empty_decl
    /\ \E k \in 1 .. Len(out) : IsEmptyLocal(out[k]) /\ out[k].text # <<>>
    /\ \E k \in 1 .. Len(out) : out[k].where = "param"
    /\ out[Len(out)].where = "file" /\ out[Len(out)].text # <<>>

----------------------------------------------------------------------------
(* The name casing utility: src/nxbindgen/typescript/utils.py, to_python.  *)
(* An identifier is the sequence of its characters.                        *)

\* Longest identifier of the input space.
MaxName == 4

UpperChars ==
    <<"A", "B", "C", "D", "E", "F", "G", "H", "I", "J", "K", "L", "M",
      "N", "O", "P", "Q", "R", "S", "T", "U", "V", "W", "X", "Y", "Z">>

LowerChars ==
    <<"a", "b", "c", "d", "e", "f", "g", "h", "i", "j", "k", "l", "m",
      "n", "o", "p", "q", "r", "s", "t", "u", "v", "w", "x", "y", "z">>

DigitChars == {"0", "1", "2", "3", "4", "5", "6", "7", "8", "9"}

\* The character classes [A-Z] and [a-z].
IsUpperChar(c) == \E i \in 1 .. Len(UpperChars) : UpperChars[i] = c
IsLowerChar(c) == \E i \in 1 .. Len(LowerChars) : LowerChars[i] = c

\* str.isupper: some cased character, and no lower-case one.
isupper(name) ==
    /\ \E i \in 1 .. Len(name) : IsUpperChar(name[i])
    /\ \A i \in 1 .. Len(name) : ~IsLowerChar(name[i])

\* str.lower
lower(name) ==
    [i \in 1 .. Len(name) |->
        IF IsUpperChar(name[i])
        THEN LowerChars[CHOOSE k \in 1 .. Len(UpperChars) : UpperChars[k] = name[i]]
        ELSE name[i]]

\* The last index of the run of lower-case characters that starts at from.
RunEnd(name, from) ==
    CHOOSE j \in from .. Len(name) :
        /\ \A i \in from .. j : IsLowerChar(name[i])
        /\ (j = Len(name) \/ ~IsLowerChar(name[j + 1]))

\* re.sub('(.)([A-Z][a-z]+)', r'\1_\2', name): leftmost matches, left to
\* right, none overlapping; what no match covers is copied.
RECURSIVE SubWord(_)
SubWord(name) ==
    IF name = <<>> THEN <<>>
    ELSE IF Len(name) >= 3 /\ IsUpperChar(name[2]) /\ IsLowerChar(name[3])
    THEN LET j == RunEnd(name, 3)
         IN  <<name[1], "_">> \o SubSeq(name, 2, j) \o SubWord(SubSeq(name, j + 1, Len(name)))
    ELSE <<name[1]>> \o SubWord(Tail(name))

\* re.sub('__([A-Z])', r'_\1', name)
RECURSIVE SubUnderscore(_)
SubUnderscore(name) ==
    IF name = <<>> THEN <<>>
    ELSE IF Len(name) >= 3 /\ name[1] = "_" /\ name[2] = "_" /\ IsUpperChar(name[3])
    THEN <<"_", name[3]>> \o SubUnderscore(SubSeq(name, 4, Len(name)))
    ELSE <<name[1]>> \o SubUnderscore(Tail(name))

\* SubBoundary with the pattern matched without regard to case.
RECURSIVE SubBoundaryIgnoreCase(_)
SubBoundaryIgnoreCase(name) ==
    IF name = <<>> THEN <<>>
    ELSE IF /\ Len(name) >= 2
            /\ (IsLowerChar(name[1]) \/ IsUpperChar(name[1]) \/ name[1] \in DigitChars)
            /\ (IsUpperChar(name[2]) \/ IsLowerChar(name[2]))
    THEN <<name[1], "_", name[2]>> \o SubBoundaryIgnoreCase(SubSeq(name, 3, Len(name)))
    ELSE <<name[1]>> \o SubBoundaryIgnoreCase(Tail(name))

\* re.sub('([a-z0-9])([A-Z])', r'\1_\2', name)
RECURSIVE SubBoundary(_)
SubBoundary(name) ==
    IF name = <<>> THEN <<>>
    ELSE IF /\ Len(name) >= 2
            /\ (IsLowerChar(name[1]) \/ name[1] \in DigitChars)
            /\ IsUpperChar(name[2])
    THEN <<name[1], "_", name[2]>> \o SubBoundary(SubSeq(name, 3, Len(name)))
    ELSE <<name[1]>> \o SubBoundary(Tail(name))

to_python(name) ==
    IF isupper(name) THEN name
    ELSE lower(SubBoundary(SubUnderscore(SubWord(name))))

\* The identifiers of the input space: an upper-case letter, two lower-case
\* letters, a digit and the underscore, in every arrangement.
NameChars == {"a", "b", "B", "1", "_"}

RECURSIVE NamesOfLen(_)
NamesOfLen(len) ==
    IF len = 0 THEN {<<>>}
    ELSE {<<c>> \o n : c \in NameChars, n \in NamesOfLen(len - 1)}

Names == UNION {NamesOfLen(len) : len \in 1 .. MaxName}

InitCasing ==
    /\ node \in Names
    /\ opts = DefaultOpts
    /\ state = {}
    /\ skip = {}
    /\ indent_level = 0
    /\ pc = "name"
    /\ pos = 0
    /\ out = <<>>
    /\ crun = NoRun
    /\ pyrun = NoRun
    /\ code = <<>>
    /\ buffer = <<>>
    /\ imports = <<>>
    /\ new_types = <<>>
    /\ ctx = [indent |-> 0]
    /\ fs = <<>>

\* to_python applied to the identifier, then to each result in turn.
ToPython ==
    /\ pc \in {"name", "once"}
    /\ out' = Append(out, to_python(IF out = <<>> THEN node ELSE out[Len(out)]))
    /\ pc' = IF pc = "name" THEN "once" ELSE "twice"
    /\ UNCHANGED <<node, opts, state, skip, indent_level, pos, crun, pyrun,
                   code, buffer, imports, new_types, ctx, fs>>

NextCasing == ToPython

SpecCasing == InitCasing /\ [][NextCasing]_vars

\* A name in the target convention: lower-case snake_case, no capital in it.
IsSnakeCase(name) == \A i \in 1 .. Len(name) : ~IsUpperChar(name[i])

\* C18: to_python(to_python(n)) = to_python(n) for every identifier n, and
\* a name already in lower-case snake_case is returned unchanged.
C18_Idempotent ==
    /\ (pc = "twice" => out[2] = out[1])
    /\ (pc # "name" /\ IsSnakeCase(node) => out[1] = node)

\* A capitalised word inside a name was split off, and the result was
\* re-cased again.
C18_Witness ==
    /\ pc = "twice"
    /\ node = <<"a", "B", "b">>
    /\ out[1] = <<"a", "_", "b", "b">>

----------------------------------------------------------------------------
(* The TypeScript-declaration engine: src/nxbindgen/typescript/sandbox.py, *)
(* class PyGenerator.  The engine's fields travel through the visit as the *)
(* record g = [code, buffer, imports, new_types, error]; error names the   *)
(* exception that ended the traversal ("" while none has), and a raised    *)
(* exception leaves every later step of the traversal undone.  A context   *)
(* dict is the record c = [indent, has_methods, methods, is_async,         *)
(* with_name, with_default]; methods lists its entries in insertion order. *)
(* A line of output is a string; a name is the sequence of its characters; *)
(* the buffer is the sequence of the strings added to it since the last    *)
(* flush (its text is their concatenation).                                *)

\* PyGenerator.__init__
NewEngine == [code |-> <<>>, buffer |-> <<>>, imports |-> <<>>, new_types |-> <<>>, error |-> ""]

\* The context of the outermost visit: {'indent': 0}.
TopCtx ==
    [indent |-> 0, has_methods |-> FALSE, methods |-> <<>>, is_async |-> FALSE,
     with_name |-> TRUE, with_default |-> TRUE]

INDENT == "    "

\* self.INDENT * n
RECURSIVE Indent(_)
Indent(n) == IF n = 0 THEN "" ELSE INDENT \o Indent(n - 1)

\* list.insert(index, item), index counted from 0.
ListInsert(list, index, item) ==
    IF index >= Len(list) THEN Append(list, item)
    ELSE SubSeq(list, 1, index) \o <<item>> \o SubSeq(list, index + 1, Len(list))

\* PyGenerator.flush
flush(g) ==
    IF g.error # "" \/ g.buffer = <<>> THEN g
    ELSE [g EXCEPT !.code = Append(g.code, JoinChars(g.buffer)), !.buffer = <<>>]

\* PyGenerator.add_line; no call in the module passes backtrack.
add_line(g, line, indent) ==
    IF g.error # "" THEN g
    ELSE [flush(g) EXCEPT !.code = Append(flush(g).code, Indent(indent) \o line)]

\* PyGenerator.insert_line
insert_line(g, line_no, line, indent) ==
    IF g.error # "" THEN g
    ELSE [g EXCEPT !.code = ListInsert(g.code, line_no, Indent(indent) \o line)]

\* PyGenerator.add
add(g, string, indent) ==
    IF g.error # "" THEN g
    ELSE LET started == IF g.buffer = <<>> /\ indent > 0 THEN <<Indent(indent)>> ELSE g.buffer
         IN  [g EXCEPT !.buffer = IF string = "" THEN started ELSE Append(started, string)]

\* PyGenerator.add_empty
RECURSIVE AppendEmpty(_, _)
AppendEmpty(list, count) ==
    IF count = 0 THEN list ELSE AppendEmpty(Append(list, ""), count - 1)

add_empty(g, count) ==
    IF g.error # "" THEN g
    ELSE [flush(g) EXCEPT !.code = AppendEmpty(flush(g).code, count)]

\* PyGenerator.add_import: self._imports.setdefault(_from, set()).add(import_obj)
add_import(g, from, import_obj) ==
    IF g.error # "" THEN g
    ELSE IF \E k \in 1 .. Len(g.imports) : g.imports[k].from = from
    THEN LET k == CHOOSE k \in 1 .. Len(g.imports) : g.imports[k].from = from
         IN  [g EXCEPT !.imports[k].names = @ \cup {import_obj}]
    ELSE [g EXCEPT !.imports = Append(@, [from |-> from, names |-> {import_obj}])]

\* An exception raised inside visit_node.
Raise(g, exception) == IF g.error # "" THEN g ELSE [g EXCEPT !.error = exception]

\* AST nodes of the TypeScript declaration schema.
Identifier(escapedText) == [kind |-> "Identifier", escapedText |-> escapedText]

\* A name node that is not an identifier; repr is its dict as str() spells it.
ComputedPropertyName(repr) == [kind |-> "ComputedPropertyName", repr |-> repr]

Keyword(kind) == [kind |-> kind]

TypeReference(typeName, typeArguments) ==
    [kind |-> "TypeReference", typeName |-> Identifier(typeName), typeArguments |-> typeArguments]

ArrayType(elementType) == [kind |-> "ArrayType", elementType |-> elementType]

UnionType(types) == [kind |-> "UnionType", types |-> types]

IntersectionType(types) == [kind |-> "IntersectionType", types |-> types]

TupleType(elements) == [kind |-> "TupleType", elements |-> elements]

NamedTupleMember(type) == [kind |-> "NamedTupleMember", type |-> type]

ParenthesizedType(type) == [kind |-> "ParenthesizedType", type |-> type]

LiteralType(literal) == [kind |-> "LiteralType", literal |-> literal]

StringLiteral(text) == [kind |-> "StringLiteral", text |-> text]

FirstLiteralToken(text) == [kind |-> "FirstLiteralToken", text |-> text]

TypeQuery(exprName) == [kind |-> "TypeQuery", exprName |-> Identifier(exprName)]

FunctionType(parameters, type) ==
    [kind |-> "FunctionType", parameters |-> parameters, type |-> type]

TypeLiteral(members) == [kind |-> "TypeLiteral", members |-> members]

Parameter(name, optional, type) ==
    [kind |-> "Parameter", name |-> Identifier(name), questionToken |-> optional, type |-> type]

\* modifiers: the set of the kinds of the node's modifier keywords.
PropertyDeclaration(name, modifiers, type) ==
    [kind |-> "PropertyDeclaration", name |-> name, modifiers |-> modifiers, type |-> type]

MethodDeclaration(name, parameters, type) ==
    [kind |-> "MethodDeclaration", name |-> name, parameters |-> parameters, type |-> type]

Constructor(parameters) == [kind |-> "Constructor", parameters |-> parameters]

FunctionDeclaration(name, parameters, type) ==
    [kind |-> "FunctionDeclaration", name |-> Identifier(name),
     parameters |-> parameters, type |-> type]

TypeAliasDeclaration(name, type) ==
    [kind |-> "TypeAliasDeclaration", name |-> Identifier(name), type |-> type]

ExpressionWithTypeArguments(escapedText) ==
    [kind |-> "ExpressionWithTypeArguments", expression |-> Identifier(escapedText)]

HeritageClause(types) == [kind |-> "HeritageClause", types |-> types]

ClassDeclaration(kind, name, heritageClauses, members) ==
    [kind |-> kind, name |-> Identifier(name),
     heritageClauses |-> heritageClauses, members |-> members]

VariableDeclaration(name) == [kind |-> "VariableDeclaration", name |-> Identifier(name)]

SourceFile(statements) == [kind |-> "SourceFile", statements |-> statements]

\* traverse.get_name
get_name(n) ==
    IF n.name.kind = "Identifier" THEN n.name.escapedText
    ELSE <<"#", " ">> \o n.name.repr

\* is_read_only looking for a keyword kind that no modifier has.
is_read_only_misspelt(n) == "ReadOnlyKeyword" \in n.modifiers

\* traverse.is_read_only, traverse.is_static, traverse.is_optional
is_read_only(n) == "ReadonlyKeyword" \in n.modifiers

is_static(n) == "StaticKeyword" \in n.modifiers

is_optional(n) == n.questionToken

\* str.replace(old, new) on the buffer: old is always 'def <name>', which
\* only the string added by the method arm can hold.
BufferReplace(buf, method_name) ==
    [k \in 1 .. Len(buf) |->
        IF buf[k] = "def " \o method_name \o "(self"
        THEN "async def " \o method_name \o "(self"
        ELSE buf[k]]

\* TypeReference._map: the mapped name, the import it adds, whether it sets
\* ctx['is_async'].
MapTypeName(t_name) ==
    CASE t_name = "Promise" -> [name |-> "Awaitable", import |-> "Awaitable", is_async |-> TRUE]
      [] t_name = "Map" -> [name |-> "Dict", import |-> "Dict", is_async |-> FALSE]
      [] t_name = "IterableIterator" -> [name |-> "Iterable", import |-> "Iterable", is_async |-> FALSE]
      [] t_name = "This" -> [name |-> "Self", import |-> "Self", is_async |-> FALSE]
      [] OTHER -> [name |-> t_name, import |-> "", is_async |-> FALSE]

\* The text of the keyword arms of visit_node.
KeywordText ==
    [VoidKeyword |-> "None", AnyKeyword |-> "Any", BooleanKeyword |-> "bool",
     TrueKeyword |-> "True", FalseKeyword |-> "False", NumberKeyword |-> "int",
     BigIntKeyword |-> "int", StringKeyword |-> "str", NullKeyword |-> "None",
     UndefinedKeyword |-> "None", IndexedAccessType |-> "TODO_INDEXED_ACCESS_TYPE"]

\* The second pass of the class arm over one entry of cls_ctx['methods'].
RECURSIVE MarkOverloads(_, _, _, _, _, _)
MarkOverloads(g, method_name, line_nums, idx, offset, indent) ==
    IF idx > Len(line_nums) THEN g
    ELSE MarkOverloads(
             insert_line(g, line_nums[idx] + offset,
                         IF idx = 1 THEN "@singledispatchmethod"
                         ELSE "@" \o method_name \o ".register",
                         indent),
             method_name, line_nums, idx + 1, offset + 1, indent)

\* The second pass of the class arm: offset counts every marker inserted so
\* far, whatever the method.
RECURSIVE OverloadPass(_, _, _, _)
OverloadPass(g, methods, offset, indent) ==
    IF methods = <<>> THEN g
    ELSE LET m == Head(methods) IN
         IF Len(m.line_nums) > 1
         THEN OverloadPass(
                  MarkOverloads(add_import(g, "functools", "singledispatchmethod"),
                                m.name, m.line_nums, 1, offset, indent),
                  Tail(methods), offset + Len(m.line_nums), indent)
         ELSE OverloadPass(g, Tail(methods), offset, indent)

\* ctx['methods'].setdefault(method_name, []).append(line_no)
RecordMethod(methods, method_name, line_no) ==
    IF \E k \in 1 .. Len(methods) : methods[k].name = method_name
    THEN LET k == CHOOSE k \in 1 .. Len(methods) : methods[k].name = method_name
         IN  [methods EXCEPT ![k].line_nums = Append(@, line_no)]
    ELSE Append(methods, [name |-> method_name, line_nums |-> <<line_no>>])

RECURSIVE visit_node(_, _, _)
RECURSIVE visit_list(_, _, _, _, _, _)

\* A loop of visit_node over child nodes.  sep is the string added between
\* them ("" for none), first tells whether it is also added before the first
\* child, and copied tells whether each child is visited with the copy
\* {**ctx, 'with_name': False, 'with_default': False} of the context.
visit_list(nodes, c, g, sep, first, copied) ==
    IF nodes = <<>> \/ g.error # "" THEN [g |-> g, c |-> c]
    ELSE LET g1 == IF first /\ sep # "" THEN add(g, sep, c.indent) ELSE g
             r == visit_node(Head(nodes),
                             IF copied THEN [c EXCEPT !.with_name = FALSE, !.with_default = FALSE]
                             ELSE c,
                             g1)
         IN  visit_list(Tail(nodes), IF copied THEN c ELSE r.c, r.g, sep, TRUE, copied)

\* visit_node, arm 'ClassDeclaration' | 'InterfaceDeclaration'
visit_Class(n, c, g) ==
    LET g1 == add(add_line(add_empty(g, 2), "@external", c.indent),
                  "class " \o JoinChars(get_name(n)), c.indent)
        h == IF n.heritageClauses # <<>>
             THEN LET r == visit_list(n.heritageClauses, c, add(g1, "(", c.indent), "", FALSE, FALSE)
                  IN  [g |-> add(r.g, ")", c.indent), c |-> r.c]
             ELSE IF n.kind = "InterfaceDeclaration"
             THEN [g |-> add(add_import(g1, "typings", "Protocol"), "(Protocol)", c.indent), c |-> c]
             ELSE [g |-> g1, c |-> c]
        g2 == add(h.g, ":", c.indent)
    IN  IF n.members # <<>>
        THEN LET cls_ctx == [h.c EXCEPT !.indent = @ + 1, !.has_methods = TRUE, !.methods = <<>>]
                 r == visit_list(n.members, cls_ctx, g2, "", FALSE, FALSE)
             IN  [g |-> OverloadPass(r.g, r.c.methods, 0, r.c.indent), c |-> h.c]
        ELSE [g |-> add_line(g2, "...", c.indent + 1), c |-> h.c]

\* visit_node, arm 'Parameter'
visit_Parameter(n, c, g) ==
    LET g1 == IF c.with_name
              THEN add(g, JoinChars(to_python(get_name(n))) \o ": ", c.indent)
              ELSE g
        g2 == IF is_optional(n)
              THEN add(add_import(g1, "typings", "Optional"), "Optional[", c.indent)
              ELSE g1
        r == visit_node(n.type, c, g2)
    IN  IF is_optional(n)
        THEN [g |-> add(r.g, IF r.c.with_default THEN "] = None" ELSE "]", r.c.indent), c |-> r.c]
        ELSE r

\* visit_node, arm 'PropertyDeclaration' | 'PropertySignature'
visit_Property(n, c, g) ==
    LET js_name == get_name(n)
        property_name == to_python(js_name)
        is_aliased == property_name # js_name
        alias(gg) == IF is_aliased
                     THEN add_line(gg, "@alias('" \o JoinChars(js_name) \o "')", c.indent)
                     ELSE gg
        g0 == add_empty(g, 1)
    IN  IF ~is_static(n)
        THEN LET g1 == add(alias(add_line(g0, "@property", c.indent)),
                           "def " \o JoinChars(property_name) \o "(self) -> ", c.indent)
                 r1 == visit_node(n.type, c, g1)
                 g2 == add_line(add(r1.g, ":", c.indent), "raise NotImplementedError", c.indent + 1)
             IN  IF ~is_read_only(n)
                 THEN LET g3 == add(alias(add_line(add_empty(g2, 1),
                                                   "@" \o JoinChars(property_name) \o ".setter",
                                                   c.indent)),
                                    "def " \o JoinChars(property_name) \o "(self, value: ", c.indent)
                          r2 == visit_node(n.type, r1.c, g3)
                      IN  [g |-> add(r2.g, ") -> None: ...", c.indent), c |-> r2.c]
                 ELSE [g |-> g2, c |-> r1.c]
        ELSE visit_node(n.type, c, add(g0, JoinChars(property_name) \o ": ", c.indent))

\* visit_node, arm 'MethodDeclaration' | 'MethodSignature'
visit_Method(n, c, g) ==
    LET js_name == get_name(n)
        method_name == to_python(js_name)
        is_aliased == method_name # js_name
        g0 == add_empty(g, 1)
    IN  IF method_name[1] # "#"
        THEN IF ~c.has_methods THEN [g |-> Raise(g0, "KeyError"), c |-> c]
             ELSE
             LET c1 == [c EXCEPT !.methods = RecordMethod(@, JoinChars(method_name), Len(g0.code))]
                 g1 == IF is_aliased
                       THEN add_line(g0, "@alias('" \o JoinChars(js_name) \o "')", c.indent)
                       ELSE g0
                 g2 == add(g1, "def " \o JoinChars(method_name) \o "(self", c.indent)
                 r1 == visit_list(n.parameters, c1, g2, ", ", TRUE, FALSE)
                 r2 == visit_node(n.type, r1.c, add(r1.g, ") -> ", c.indent))
                 g3 == add(r2.g, ": ...", c.indent)
             IN  IF g3.error # "" THEN [g |-> g3, c |-> r2.c]
                 ELSE [g |-> IF r2.c.is_async
                             THEN [g3 EXCEPT !.buffer = BufferReplace(@, JoinChars(method_name))]
                             ELSE g3,
                       c |-> [r2.c EXCEPT !.is_async = FALSE]]
        ELSE [g |-> add_line(g0, JoinChars(method_name), c.indent), c |-> c]

\* visit_node, arm 'FunctionDeclaration'
visit_Function(n, c, g) ==
    LET js_name == get_name(n)
        function_name == to_python(js_name)
        g0 == add_empty(g, 2)
        g1 == IF function_name # js_name
              THEN add_line(g0, "@alias('" \o JoinChars(js_name) \o "')", c.indent)
              ELSE g0
        r1 == visit_list(n.parameters, c, add(g1, "def " \o JoinChars(function_name) \o "(", c.indent),
                         ", ", FALSE, FALSE)
        r2 == visit_node(n.type, r1.c, add(r1.g, ") -> ", c.indent))
    IN  [g |-> add(r2.g, ": ...", c.indent), c |-> r2.c]

\* visit_node, arm 'TypeReference'
visit_TypeReference(n, c, g) ==
    LET m == MapTypeName(JoinChars(n.typeName.escapedText))
        g1 == add(IF m.import # "" THEN add_import(g, "typings", m.import) ELSE g,
                  m.name, c.indent)
        c1 == IF m.is_async THEN [c EXCEPT !.is_async = TRUE] ELSE c
    IN  IF n.typeArguments # <<>>
        THEN LET r == visit_list(n.typeArguments, c1, add(g1, "[", c.indent), ", ", FALSE, FALSE)
             IN  [g |-> add(r.g, "]", c.indent), c |-> r.c]
        ELSE [g |-> g1, c |-> c1]

\* An arm of the shape: add_import; add(open); visit the children; add(close).
Bracketed(nodes, c, g, import_obj, open, close) ==
    LET r == visit_list(nodes, c, add(add_import(g, "typings", import_obj), open, c.indent),
                        ", ", FALSE, FALSE)
    IN  [g |-> add(r.g, close, c.indent), c |-> r.c]

\* The default arm raising instead of reporting.
visit_default_raising(n, c, g) == [g |-> Raise(g, "NotImplementedError"), c |-> c]

\* visit_node, arm 'case _': a diagnostic is printed, nothing else happens.
visit_default(n, c, g) == [g |-> g, c |-> c]

\* traverse.visit_node
visit_node(n, c, g) ==
    IF g.error # "" THEN [g |-> g, c |-> c]
    ELSE CASE n.kind = "SourceFile" -> visit_list(n.statements, c, g, "", FALSE, FALSE)
      [] n.kind \in {"ClassDeclaration", "InterfaceDeclaration"} -> visit_Class(n, c, g)
      [] n.kind = "HeritageClause" -> visit_list(n.types, c, g, ", ", FALSE, FALSE)
      [] n.kind = "ExpressionWithTypeArguments" ->
            [g |-> add(g, JoinChars(n.expression.escapedText), c.indent), c |-> c]
      [] n.kind = "Constructor" ->
            LET r == visit_list(n.parameters, c,
                                add(add_empty(g, 1), "def __init__(self", c.indent),
                                ", ", TRUE, FALSE)
            IN  [g |-> add(r.g, "): ...", c.indent), c |-> r.c]
      [] n.kind = "Parameter" -> visit_Parameter(n, c, g)
      [] n.kind \in {"PropertyDeclaration", "PropertySignature"} -> visit_Property(n, c, g)
      [] n.kind \in {"MethodDeclaration", "MethodSignature"} -> visit_Method(n, c, g)
      [] n.kind = "FunctionDeclaration" -> visit_Function(n, c, g)
      [] n.kind = "TypeAliasDeclaration" ->
            visit_node(n.type, c, add(add_empty(g, 2), JoinChars(get_name(n)) \o " = ", c.indent))
      [] n.kind \in {"ParenthesizedType", "NamedTupleMember"} -> visit_node(n.type, c, g)
      [] n.kind = "FunctionType" ->
            LET g1 == add(add(add_import(g, "typings", "Callable"), "Callable[", c.indent),
                          "[", c.indent)
                r1 == visit_list(n.parameters, c, g1, ", ", FALSE, TRUE)
                r2 == visit_node(n.type, r1.c, add(r1.g, "], ", c.indent))
            IN  [g |-> add(r2.g, "]", c.indent), c |-> r2.c]
      [] n.kind \in DOMAIN KeywordText -> [g |-> add(g, KeywordText[n.kind], c.indent), c |-> c]
      [] n.kind = "IntersectionType" -> visit_node(n.types[1], c, g)
      [] n.kind = "UnionType" -> visit_list(n.types, c, g, " | ", FALSE, FALSE)
      [] n.kind = "LiteralType" ->
            LET r == visit_node(n.literal, c,
                                add(add_import(g, "typings", "Literal"), "Literal[", c.indent))
            IN  [g |-> add(r.g, "]", c.indent), c |-> r.c]
      [] n.kind = "StringLiteral" -> [g |-> add(g, "'" \o n.text \o "'", c.indent), c |-> c]
      [] n.kind = "FirstLiteralToken" -> [g |-> add(g, n.text, c.indent), c |-> c]
      [] n.kind = "TypeQuery" ->
            [g |-> add(add(add(add_import(g, "typings", "Type"), "Type[", c.indent),
                           JoinChars(n.exprName.escapedText), c.indent),
                       "]", c.indent),
             c |-> c]
      \* new_type_name is computed, then the name DtsCodegen is looked up:
      \* the module defines no such name.
      [] n.kind = "TypeLiteral" -> [g |-> Raise(g, "NameError"), c |-> c]
      [] n.kind = "TupleType" -> Bracketed(n.elements, c, g, "Tuple", "Tuple[", "]")
      [] n.kind = "ArrayType" -> Bracketed(<<n.elementType>>, c, g, "List", "List[", "]")
      [] n.kind = "TypeReference" -> visit_TypeReference(n, c, g)
      [] n.kind = "FirstStatement" -> visit_list(n.VariableDeclarationList, c, g, "", FALSE, FALSE)
      [] n.kind = "VariableDeclaration" ->
            [g |-> add(add_empty(g, 2), JoinChars(get_name(n)) \o ": Any", c.indent), c |-> c]
      [] n.kind = "ModuleDeclaration" -> [g |-> g, c |-> c]
      [] OTHER -> visit_default(n, c, g)

\* The engine as the variables hold it.
Engine ==
    [code |-> code, buffer |-> buffer, imports |-> imports, new_types |-> new_types,
     error |-> ""]

\* ', '.join(...) and '\n'.join(...)
RECURSIVE JoinWith(_, _)
JoinWith(strings, sep) ==
    IF strings = <<>> THEN ""
    ELSE IF Len(strings) = 1 THEN strings[1]
    ELSE strings[1] \o sep \o JoinWith(Tail(strings), sep)

\* The orders in which iterating a set of str can yield its members: the
\* order follows the strings' hashes, which the interpreter salts anew in
\* every process.
Orderings(names) ==
    {q \in [1 .. Cardinality(names) -> names] :
        \A i, j \in 1 .. Cardinality(names) : i # j => q[i] # q[j]}

\* One iteration order for each entry of self._imports.
RECURSIVE ImportOrders(_)
ImportOrders(imps) ==
    IF imps = <<>> THEN {<<>>}
    ELSE {<<q>> \o rest : q \in Orderings(imps[1].names), rest \in ImportOrders(Tail(imps))}

\* PyGenerator.insert_types
RECURSIVE insert_types(_, _)
insert_types(g, types) ==
    IF types = <<>> THEN g
    ELSE insert_types(insert_line(g, 0, Head(types), 0), Tail(types))

\* insert_imports putting every line at index 0.
RECURSIVE insert_imports_at_top(_, _, _)
insert_imports_at_top(g, orders, idx) ==
    IF idx >= Len(g.imports) THEN g
    ELSE insert_imports_at_top(
             [g EXCEPT !.code = ListInsert(@, 0,
                  "from " \o g.imports[idx + 1].from \o " import "
                      \o JoinWith(orders[idx + 1], ", "))],
             orders, idx + 1)

\* PyGenerator.insert_imports, the sets iterated in the orders given.
RECURSIVE insert_imports(_, _, _)
insert_imports(g, orders, idx) ==
    IF idx >= Len(g.imports) THEN g
    ELSE insert_imports(
             [g EXCEPT !.code = ListInsert(@, idx,
                  "from " \o g.imports[idx + 1].from \o " import "
                      \o JoinWith(orders[idx + 1], ", "))],
             orders, idx + 1)

\* PyGenerator.to_file before insert_imports: the types are inserted and
\* the two fixed imports added.
BeforeImports(g) ==
    add_import(add_import(insert_types(g, g.new_types), "woma.host.bindgen", "external"),
               "woma.host.bindgen", "alias")

\* PyGenerator.to_file up to the write: the engine after the insertions.
Finalized(g, orders) == insert_imports(BeforeImports(g), orders, 0)

----------------------------------------------------------------------------
(* The declaration files of the input space. *)

\* Most members of a class, and most statements of a file.
MaxMembers == 4

MaxStmts == 3

NumberType == Keyword("NumberKeyword")

VoidType == Keyword("VoidKeyword")

PromiseOfVoid == TypeReference(<<"P", "r", "o", "m", "i", "s", "e">>, <<VoidType>>)

\* A node kind that visit_node has no arm for.
UnknownNode == [kind |-> "EnumDeclaration"]

\* The members a generated class is built from: two methods, one of them
\* re-cased, and a property under each combination of modifiers.
MemberPool ==
    {MethodDeclaration(Identifier(<<"f">>), <<>>, VoidType),
     MethodDeclaration(Identifier(<<"g", "H">>), <<>>, VoidType)}
    \cup {PropertyDeclaration(Identifier(<<"a", "B">>), mods, NumberType) :
             mods \in SUBSET {"ReadonlyKeyword", "StaticKeyword"}}

RECURSIVE MemberLists(_)
MemberLists(len) ==
    IF len = 0 THEN {<<>>}
    ELSE {<<m>> \o rest : m \in MemberPool, rest \in MemberLists(len - 1)}

PoolClasses ==
    {ClassDeclaration("ClassDeclaration", <<"K">>, <<>>, members) :
        members \in UNION {MemberLists(len) : len \in 1 .. MaxMembers}}

\* Statements of other shapes: a re-cased function with an optional re-cased
\* parameter and a promise for result, a node of unknown kind, an interface
\* with an overloaded method, a type alias of an anonymous structural type,
\* a derived class, a variable statement, a module.
OtherStatements ==
    {FunctionDeclaration(<<"d", "o", "I", "t">>,
                         <<Parameter(<<"a", "B">>, TRUE, NumberType)>>, PromiseOfVoid),
     UnknownNode,
     ClassDeclaration("InterfaceDeclaration", <<"S">>, <<>>,
         <<MethodDeclaration(Identifier(<<"f">>), <<>>, VoidType),
           MethodDeclaration(Identifier(<<"f">>),
                             <<Parameter(<<"x", "Y">>, FALSE, ArrayType(NumberType))>>,
                             VoidType)>>),
     TypeAliasDeclaration(<<"T">>,
         TypeLiteral(<<PropertyDeclaration(Identifier(<<"x">>), {}, NumberType)>>)),
     ClassDeclaration("ClassDeclaration", <<"D">>,
         <<HeritageClause(<<ExpressionWithTypeArguments(<<"K">>)>>)>>,
         <<Constructor(<<Parameter(<<"c", "b">>, FALSE,
                                   FunctionType(<<Parameter(<<"e">>, TRUE, NumberType)>>,
                                                VoidType))>>),
           UnknownNode,
           PropertyDeclaration(Identifier(<<"p">>), {"StaticKeyword"},
                               UnionType(<<Keyword("StringKeyword"), Keyword("NullKeyword")>>))>>),
     [kind |-> "FirstStatement",
      VariableDeclarationList |-> <<VariableDeclaration(<<"v">>)>>],
     [kind |-> "ModuleDeclaration"]}

RECURSIVE StatementLists(_)
StatementLists(len) ==
    IF len = 0 THEN {<<>>}
    ELSE {<<s>> \o rest : s \in OtherStatements, rest \in StatementLists(len - 1)}

\* The files: one generated class; statements of the other shapes; a
\* generated class of at most two members before one such statement.
SourceFiles ==
    {SourceFile(<<k>>) : k \in PoolClasses}
    \cup {SourceFile(stmts) : stmts \in UNION {StatementLists(len) : len \in 1 .. MaxStmts}}
    \cup {SourceFile(<<k, s>>) :
             k \in {c \in PoolClasses : Len(c.members) <= 2}, s \in OtherStatements}

\* The destination of a pass.
PathOf(run) == "out" \o ToString(run) \o ".py"

InitTs ==
    /\ node \in SourceFiles
    /\ opts = DefaultOpts
    /\ state = {}
    /\ skip = {}
    /\ indent_level = 0
    /\ pc = "traverse"
    /\ pos = 1
    /\ out = <<>>
    /\ crun = NoRun
    /\ pyrun = NoRun
    /\ code = <<>>
    /\ buffer = <<>>
    /\ imports = <<>>
    /\ new_types = <<>>
    /\ ctx = TopCtx
    /\ fs = <<>>

\* traverse, arm 'SourceFile': one turn of the loop over node['statements'].
\* A raised exception ends the pass; pc then names it.
VisitStatement ==
    /\ pc = "traverse"
    /\ pos <= Len(node.statements)
    /\ LET r == visit_node(node.statements[pos], ctx, Engine) IN
        /\ code' = r.g.code
        /\ buffer' = r.g.buffer
        /\ imports' = r.g.imports
        /\ new_types' = r.g.new_types
        /\ ctx' = r.c
        /\ pc' = IF r.g.error # "" THEN r.g.error ELSE pc
        /\ pos' = IF r.g.error # "" THEN pos ELSE pos + 1
    /\ UNCHANGED <<node, opts, state, skip, indent_level, out, crun, pyrun, fs>>

\* traverse: the loop is over, self.flush().
TraverseReturn ==
    /\ pc = "traverse"
    /\ pos > Len(node.statements)
    /\ code' = flush(Engine).code
    /\ buffer' = <<>>
    /\ pc' = "traversed"
    /\ UNCHANGED <<node, opts, state, skip, indent_level, pos, out, crun, pyrun,
                   imports, new_types, ctx, fs>>

\* to_file: the deferred insertions, then the write.
ToFile ==
    /\ pc = "traversed"
    /\ \E orders \in ImportOrders(BeforeImports(Engine).imports) :
        LET g == Finalized(Engine, orders) IN
        /\ code' = g.code
        /\ imports' = g.imports
        /\ fs' = Append(fs, [path |-> PathOf(Len(fs) + 1), content |-> JoinWith(g.code, "\n")])
    /\ pc' = "written"
    /\ UNCHANGED <<node, opts, state, skip, indent_level, pos, out, crun, pyrun,
                   buffer, new_types, ctx>>

NextTs == VisitStatement \/ TraverseReturn \/ ToFile

SpecTs == InitTs /\ [][NextTs]_vars

\* Two passes over one AST, each by a freshly constructed engine: the files
\* of one statement, the classes among them of at most two members.
InitTwice ==
    /\ InitTs
    /\ Len(node.statements) = 1
    /\ node.statements[1] \in PoolClasses => Len(node.statements[1].members) <= 2

\* The same AST is handed to a freshly constructed engine.
RenderAgain ==
    /\ pc = "written"
    /\ Len(fs) = 1
    /\ code' = <<>>
    /\ buffer' = <<>>
    /\ imports' = <<>>
    /\ new_types' = <<>>
    /\ ctx' = TopCtx
    /\ pos' = 1
    /\ pc' = "traverse"
    /\ UNCHANGED <<node, opts, state, skip, indent_level, out, crun, pyrun, fs>>

NextTwice == NextTs \/ RenderAgain

SpecTwice == InitTwice /\ [][NextTwice]_vars

\* C11: rendering the same AST twice, each time with a freshly constructed
\* engine, yields identical output text, the order of the symbols on the
\* import lines included.
C11_SameOutputTwice == Len(fs) = 2 => fs[1].content = fs[2].content

----------------------------------------------------------------------------
(* Claims about the rendered declarations. *)

\* The names a list of parameters declares.
ParameterNames(parameters) == {parameters[k].name.escapedText : k \in 1 .. Len(parameters)}

\* The names a member or statement declares and the engine re-cases: those
\* of methods, functions, properties and their parameters.
RECURSIVE RecasedNames(_)
RecasedNames(n) ==
    CASE n.kind \in {"ClassDeclaration", "InterfaceDeclaration"} ->
            UNION {RecasedNames(n.members[k]) : k \in 1 .. Len(n.members)}
      [] n.kind \in {"MethodDeclaration", "FunctionDeclaration"} ->
            {get_name(n)} \cup ParameterNames(n.parameters)
      [] n.kind = "Constructor" -> ParameterNames(n.parameters)
      [] n.kind = "PropertyDeclaration" -> {get_name(n)}
      [] OTHER -> {}

\* Some line of the output is the alias annotation of the name.
HasAlias(lines, js_name) ==
    \E k \in 1 .. Len(lines) : \E depth \in 0 .. 2 :
        lines[k] = Indent(depth) \o "@alias('" \o JoinChars(js_name) \o "')"

\* C12: every declared name emitted in re-cased form whose re-cased spelling
\* differs from the original (methods, functions, properties static or not,
\* parameters) is accompanied in the output by an alias annotation carrying
\* the original spelling.
C12_RecasedNamesAliased ==
    pc = "traversed" =>
        \A k \in 1 .. Len(node.statements) :
            \A name \in RecasedNames(node.statements[k]) :
                to_python(name) # name => HasAlias(code, name)

\* The lines of the output cut into blocks at the empty lines: every member
\* of a class opens with one.
RECURSIVE SplitBlocks(_, _)
SplitBlocks(lines, blocks) ==
    IF lines = <<>> THEN blocks
    ELSE IF Head(lines) = "" THEN SplitBlocks(Tail(lines), Append(blocks, <<>>))
    ELSE SplitBlocks(Tail(lines),
                     IF blocks = <<>> THEN <<<<Head(lines)>>>>
                     ELSE [blocks EXCEPT ![Len(blocks)] = Append(@, Head(lines))])

\* The blocks a member is to render as, one level deep in a class: the
\* accessor stub, the mutator stub, the plain typed binding; a method is any
\* one block.
AnyBlock == <<"...">>

ExpectedBlocks(m) ==
    IF m.kind # "PropertyDeclaration" THEN <<AnyBlock>>
    ELSE LET js_name == m.name.escapedText
             py_name == JoinChars(to_python(js_name))
             type == KeywordText[m.type.kind]
             alias == IF to_python(js_name) # js_name
                      THEN <<INDENT \o "@alias('" \o JoinChars(js_name) \o "')">>
                      ELSE <<>>
             accessor == <<INDENT \o "@property">> \o alias
                         \o <<INDENT \o "def " \o py_name \o "(self) -> " \o type \o ":",
                              INDENT \o INDENT \o "raise NotImplementedError">>
             mutator == <<INDENT \o "@" \o py_name \o ".setter">> \o alias
                        \o <<INDENT \o "def " \o py_name \o "(self, value: " \o type
                                    \o ") -> None: ...">>
             binding == <<INDENT \o py_name \o ": " \o type>>
         IN  IF "StaticKeyword" \in m.modifiers THEN <<binding>>
             ELSE IF "ReadonlyKeyword" \in m.modifiers THEN <<accessor>>
             ELSE <<accessor, mutator>>

RECURSIVE ExpectedBody(_)
ExpectedBody(members) ==
    IF members = <<>> THEN <<>>
    ELSE ExpectedBlocks(Head(members)) \o ExpectedBody(Tail(members))

\* The blocks under the header of the only class of the file.
ClassBody == SplitBlocks(SubSeq(code, 5, Len(code)), <<>>)

OneClass == Len(node.statements) = 1 /\ node.statements[1] \in PoolClasses

\* C13: a non-static, non-read-only property renders an accessor stub
\* followed by a mutator stub; a non-static read-only property renders only
\* the accessor; a static property, read-only or not, renders a single plain
\* typed class-level binding and no accessor or mutator.
C13_PropertyStubs ==
    pc = "traversed" /\ OneClass =>
        LET expected == ExpectedBody(node.statements[1].members) IN
        /\ Len(ClassBody) = Len(expected)
        /\ \A k \in 1 .. Len(expected) :
               expected[k] # AnyBlock => ClassBody[k] = expected[k]

\* A class with a read-write, a read-only and a static read-only property
\* was rendered.
C13_Witness ==
    /\ pc = "traversed"
    /\ OneClass
    /\ LET members == node.statements[1].members IN
        /\ Len(members) = 3
        /\ \A k \in 1 .. 3 : members[k].kind = "PropertyDeclaration"
        /\ members[1].modifiers = {}
        /\ members[2].modifiers = {"ReadonlyKeyword"}
        /\ members[3].modifiers = {"ReadonlyKeyword", "StaticKeyword"}

\* The marker that is to stand before the k-th member, a method: none when
\* its name is declared once, the dispatch entry at the first declaration,
\* the registered overload at every later one.
ExpectedMarker(members, k) ==
    LET name == to_python(get_name(members[k]))
        same == {j \in 1 .. Len(members) :
                    /\ members[j].kind = "MethodDeclaration"
                    /\ to_python(get_name(members[j])) = name}
    IN  IF Cardinality(same) = 1 THEN <<>>
        ELSE IF \A j \in same : j >= k THEN <<INDENT \o "@singledispatchmethod">>
        ELSE <<INDENT \o "@" \o JoinChars(name) \o ".register">>

\* The declaration of a method of the pool as the method arm renders it.
MethodLines(m) ==
    (IF to_python(get_name(m)) # get_name(m)
     THEN <<INDENT \o "@alias('" \o JoinChars(get_name(m)) \o "')">>
     ELSE <<>>)
    \o <<INDENT \o "def " \o JoinChars(to_python(get_name(m))) \o "(self) -> None: ...">>

\* The blocks of a class body, every method with the marker it is to have.
RECURSIVE MarkedBody(_, _)
MarkedBody(members, k) ==
    IF k > Len(members) THEN <<>>
    ELSE (IF members[k].kind = "MethodDeclaration"
          THEN <<ExpectedMarker(members, k) \o MethodLines(members[k])>>
          ELSE ExpectedBlocks(members[k]))
         \o MarkedBody(members, k + 1)

\* C14: in a class where re-cased method names are declared more than once,
\* in any declaration order, once the class body is finished the first
\* occurrence of each such name is immediately preceded by the dispatch-entry
\* marker and every later one by the registered-overload marker of that
\* name; methods declared once get no marker.
C14_OverloadMarkers ==
    pc = "traversed" /\ OneClass => ClassBody = MarkedBody(node.statements[1].members, 1)

\* The same, for the classes in which no other overloaded name is declared
\* between two declarations of an overloaded name.
Interleaved(members) ==
    \E i, j, k \in 1 .. Len(members) :
        /\ i < j /\ j < k
        /\ members[i].kind = "MethodDeclaration"
        /\ members[j].kind = "MethodDeclaration"
        /\ members[k].kind = "MethodDeclaration"
        /\ get_name(members[i]) = get_name(members[k])
        /\ get_name(members[j]) # get_name(members[i])
        /\ ExpectedMarker(members, j) # <<>>

OverloadMarkersWhenGrouped ==
    pc = "traversed" /\ OneClass /\ ~Interleaved(node.statements[1].members)
        => ClassBody = MarkedBody(node.statements[1].members, 1)

\* The spellings an import line of a module can have.
ImportLineForms(entry) ==
    {"from " \o entry.from \o " import " \o JoinWith(q, ", ") : q \in Orderings(entry.names)}

\* No line of the output is an import line of a module used so far or a
\* declaration from the synthesized-type registry.
NothingDeferredIn(lines, imps, types) ==
    \A k \in 1 .. Len(lines) :
        /\ \A i \in 1 .. Len(imps) : lines[k] \notin ImportLineForms(imps[i])
        /\ \A i \in 1 .. Len(types) : lines[k] # types[i]

KnownKinds ==
    {"SourceFile", "ClassDeclaration", "InterfaceDeclaration", "HeritageClause",
     "ExpressionWithTypeArguments", "Constructor", "Parameter", "PropertyDeclaration",
     "PropertySignature", "MethodDeclaration", "MethodSignature", "FunctionDeclaration",
     "TypeAliasDeclaration", "ParenthesizedType", "FunctionType", "IntersectionType",
     "UnionType", "LiteralType", "StringLiteral", "FirstLiteralToken", "TypeQuery",
     "TypeLiteral", "TupleType", "NamedTupleMember", "ArrayType", "TypeReference",
     "FirstStatement", "VariableDeclaration", "ModuleDeclaration"}
    \cup DOMAIN KeywordText

\* A list of nodes without those of unknown kind, the members of the classes
\* among them likewise.
RECURSIVE KnownOnly(_)
KnownOnly(nodes) ==
    IF nodes = <<>> THEN <<>>
    ELSE LET n == Head(nodes) IN
         IF n.kind \notin KnownKinds THEN KnownOnly(Tail(nodes))
         ELSE IF n.kind \in {"ClassDeclaration", "InterfaceDeclaration"}
         THEN <<[n EXCEPT !.members = KnownOnly(@)]>> \o KnownOnly(Tail(nodes))
         ELSE <<n>> \o KnownOnly(Tail(nodes))

HasUnknown(nodes) == KnownOnly(nodes) # nodes

\* The lines a complete traversal of the statements leaves in the output.
TraversalOf(statements) ==
    flush(visit_node(SourceFile(statements), TopCtx, NewEngine).g).code

\* C16: when visit_node meets a node whose kind it does not recognize, it
\* emits no text for that node and raises no error, and all remaining
\* sibling nodes are still visited and rendered in source order: the step
\* over such a statement changes nothing but the position, and the output of
\* the pass is that of the same file without the unrecognized nodes.
C16_UnknownSkipped ==
    [][/\ (pc = "traverse" /\ pos <= Len(node.statements)
              /\ node.statements[pos].kind \notin KnownKinds)
          => /\ pc' = "traverse"
             /\ pos' = pos + 1
             /\ code' = code /\ buffer' = buffer /\ imports' = imports
       /\ (pc' = "traversed" /\ HasUnknown(node.statements))
          => /\ pos' = Len(node.statements) + 1
             /\ code' = TraversalOf(KnownOnly(node.statements))]_vars

\* A pass over a function, a node of unknown kind and a class holding a
\* member of unknown kind has completed.
C16_Witness ==
    /\ pc = "traversed"
    /\ Len(node.statements) = 3
    /\ node.statements[1].kind = "FunctionDeclaration"
    /\ node.statements[2].kind \notin KnownKinds
    /\ node.statements[3].kind = "ClassDeclaration"
    /\ HasUnknown(node.statements[3].members)
    /\ \E k \in 1 .. Len(code) : code[k] = INDENT \o "p: str | None"

----------------------------------------------------------------------------
(* The C-path driver: src/nxbindgen/c99/sandbox.py,                        *)
(* PythonConverter.render_py.  A file's content is the sequence of the     *)
(* lines written to it.                                                    *)

\* Two texts produced one after the other: the first raise is what comes
\* out, else the lines of both.
Concat(r, rest) ==
    IF r.form = "raise" THEN r
    ELSE IF rest.form = "raise" THEN rest
    ELSE Text(r.lines \o rest.lines)

\* visit_Compound on a function body: the block items' lines, or the raise
\* of the first item that raises.
RECURSIVE BodyText(_, _, _, _)
BodyText(items, st, sk, o) ==
    IF items = <<>> THEN Text(<<>>)
    ELSE Concat(generate_body_stmt(Head(items), st, sk, o), BodyText(Tail(items), st, sk, o))

\* The parameters of a prototype, joined by commas.
RECURSIVE ParamText(_, _, _)
ParamText(params, st, o) ==
    IF params = <<>> THEN <<>>
    ELSE visit_Decl(Head(params), FALSE, "ParamList", st, o)
         \o (IF Len(params) > 1 THEN <<",">> ELSE <<>>)
         \o ParamText(Tail(params), st, o)

\* 'def ' + decl + ':\n' + body + '\n', the body 'pass' when it renders
\* empty.
DefText(decl, body) ==
    IF body.form = "raise" THEN body
    ELSE Text(<<Line(0, <<"def">> \o decl \o <<":">>)>>
              \o (IF body.lines = <<>> THEN <<Line(1, <<"pass">>)>> ELSE Shift(body.lines, 1))
              \o <<Line(0, <<>>)>>)

\* visit_FuncDef: the visited prototype, then the visited body.
visit_FuncDef(n, o) ==
    DefText(<<n.name, "(">> \o ParamText(n.params, {"FuncProto", "FuncArgs"}, o) \o <<")">>,
            BodyText(n.body, {"FuncBody"}, {}, o))

\* visit_FileAST: the text of every external declaration in turn, a
\* function followed by one more line break, a declaration by three.
RECURSIVE visit_FileAST(_, _)
visit_FileAST(ext, o) ==
    IF ext = <<>> THEN Text(<<>>)
    ELSE Concat(IF Head(ext).kind = "FuncDef"
                THEN Concat(visit_FuncDef(Head(ext), o), Text(<<Line(0, <<>>)>>))
                ELSE Text(<<Line(0, visit_Decl(Head(ext), FALSE, "FileAST", {}, o)),
                            Line(0, <<>>), Line(0, <<>>)>>),
                visit_FileAST(Tail(ext), o))

\* line.startswith('def op_NOP(')
StartsOutput(line) ==
    /\ line.depth = 0
    /\ Len(line.toks) >= 3
    /\ SubSeq(line.toks, 1, 3) = <<"def", "op_NOP", "(">>

\* _fix_line: `env.stack.peek(a) = b` becomes `env.stack.poke(a, b)`.
fix_line(line) ==
    LET t == line.toks
        head == <<"env", ".", "stack", ".", "peek", "(">>
        closes == {i \in 7 .. Len(t) - 1 : t[i] = ")" /\ t[i + 1] = "="}
    IN  IF Len(t) >= 8 /\ SubSeq(t, 1, 6) = head /\ closes # {}
        THEN LET i == CHOOSE i \in closes : \A j \in closes : i <= j
             IN  [line EXCEPT !.toks = <<"env", ".", "stack", ".", "poke", "(">>
                                       \o SubSeq(t, 7, i - 1) \o <<",">>
                                       \o SubSeq(t, i + 2, Len(t)) \o <<")">>]
        ELSE line

\* The loop of render_py over the lines of the text: those from the line
\* that opens op_NOP on are written, each through _fix_line.
RECURSIVE WrittenLines(_, _)
WrittenLines(lines, started) ==
    IF lines = <<>> THEN <<>>
    ELSE LET now == started \/ StartsOutput(Head(lines)) IN
         (IF now THEN <<fix_line(Head(lines))>> ELSE <<>>) \o WrittenLines(Tail(lines), now)

\* The destination of render_py, and what an earlier run left there.
Destination == "generated_cases.py"

OldContent == <<Line(0, <<"def", "op_OLD", "(", ")", ":">>), Line(1, <<"pass">>)>>

\* open(path, 'w'): the file is created, or cut to nothing.
OpenForWriting(files, path) ==
    IF \E k \in 1 .. Len(files) : files[k].path = path
    THEN [k \in 1 .. Len(files) |->
             IF files[k].path = path THEN [files[k] EXCEPT !.content = <<>>] ELSE files[k]]
    ELSE Append(files, [path |-> path, content |-> <<>>])

\* file.write on the open file.
WriteLines(files, path, lines) ==
    [k \in 1 .. Len(files) |->
        IF files[k].path = path THEN [files[k] EXCEPT !.content = @ \o lines] ELSE files[k]]

\* The translation units handed to render_py: a global, then one or two
\* functions of one statement each, among them switches that render as
\* match, as a chain of guards, and not at all.
RenderItems ==
    {FuncCall("s"), Decl("y", Literal(1)), Decl("x", None)}
    \cup {sw \in Switches : Len(sw.stmt) = 1 \/ (Len(sw.stmt) = 2 /\ sw.stmt[1].stmts = <<>>)}

RenderUnits ==
    {FileAST(<<Decl("g", Literal(1)), FuncDef(name, <<Decl("p", None)>>, <<item>>)>>) :
        name \in {"op_NOP", "helper"}, item \in RenderItems}
    \cup {FileAST(<<FuncDef("op_NOP", <<>>, <<>>), FuncDef("op_POP", <<>>, <<item>>)>>) :
            item \in RenderItems}

InitRender ==
    /\ node \in RenderUnits
    /\ opts = [DefaultOpts EXCEPT !.keep_empty_decl = FALSE, !.type_hint_decl = FALSE]
    /\ state = {}
    /\ skip = {}
    /\ indent_level = 0
    /\ pc = "render_py"
    /\ pos = 0
    /\ out = <<>>
    /\ crun = NoRun
    /\ pyrun = NoRun
    /\ code = <<>>
    /\ buffer = <<>>
    /\ imports \in {<<>>, <<Line(0, <<"import", "env">>)>>}
    /\ new_types = <<>>
    /\ ctx = [indent |-> 0]
    /\ fs \in {<<>>, <<[path |-> Destination, content |-> OldContent]>>}

\* render_py: `with open(path, 'w') as py_file`, then the import lines and
\* two empty lines when there are imports.
RenderOpen ==
    /\ pc = "render_py"
    /\ fs' = WriteLines(OpenForWriting(fs, Destination), Destination,
                        IF imports # <<>>
                        THEN imports \o <<Line(0, <<>>), Line(0, <<>>)>>
                        ELSE <<>>)
    /\ pc' = "visit"
    /\ UNCHANGED <<node, opts, state, skip, indent_level, pos, out, crun, pyrun,
                   code, buffer, imports, new_types, ctx>>

\* render_py: generator.visit(self._ast) returns and the lines are written.
RenderWrite ==
    /\ pc = "visit"
    /\ visit_FileAST(node.ext, opts).form = "text"
    /\ out' = visit_FileAST(node.ext, opts).lines
    /\ fs' = WriteLines(fs, Destination, WrittenLines(out', FALSE))
    /\ pc' = "rendered"
    /\ UNCHANGED <<node, opts, state, skip, indent_level, pos, crun, pyrun,
                   code, buffer, imports, new_types, ctx>>

\* render_py: generator.visit(self._ast) raises; the with statement closes
\* the file on the way out.
RenderRaise ==
    /\ pc = "visit"
    /\ visit_FileAST(node.ext, opts).form = "raise"
    /\ pc' = "raised"
    /\ UNCHANGED <<node, opts, state, skip, indent_level, pos, out, crun, pyrun,
                   code, buffer, imports, new_types, ctx, fs>>

NextRender == RenderOpen \/ RenderWrite \/ RenderRaise

SpecRender == InitRender /\ [][NextRender]_vars

\* C17: if the generation pass raises an unsupported-construct error during
\* render_py, no output file exists at the destination afterwards: the
\* destination is neither created nor truncated by the failed pass.
C17_NoFileOnFailure ==
    pc = "raised" =>
        \A k \in 1 .. Len(fs) : fs[k].path = Destination => fs[k].content = OldContent

\* The statement the traversal stands at is a type alias of an anonymous
\* structural type.
AtTypeLiteral ==
    /\ pc = "traverse"
    /\ pos <= Len(node.statements)
    /\ node.statements[pos].kind = "TypeAliasDeclaration"
    /\ node.statements[pos].type.kind = "TypeLiteral"

\* C19: visiting an anonymous structural type completes without error,
\* appends exactly one rendered interface declaration to the synthesized-type
\* registry, and emits its name at the point of use.
C19_TypeLiteralLifted ==
    [][AtTypeLiteral =>
          /\ pc' = "traverse"
          /\ pos' = pos + 1
          /\ Len(new_types') = Len(new_types) + 1
          /\ Len(buffer') = 2]_vars

----------------------------------------------------------------------------
(* Increments and decrements inside larger expressions.                    *)

\* Depth of the expressions wrapped around an increment in the inputs.
MaxNest == 2

IncrementOps == {"p++", "++", "p--", "--"}

\* Operands without side effects.
PlainOperands == {ID("x"), Constant(<<"1">>)}

\* The unary expressions of the inputs: the four increments and
\* decrements of x, and two operators that have no side effect.
UnaryExprs == { UnaryOp(op, ID("x")) : op \in IncrementOps \cup {"-", "!"} }

\* Expression statements: a unary expression standing alone, or wrapped up
\* to k times in an assignment, a binary operator or a call argument.
RECURSIVE NestedExprs(_)
NestedExprs(k) ==
    IF k = 0 THEN PlainOperands \cup UnaryExprs
    ELSE LET E == NestedExprs(k - 1) IN
         E \cup { Assignment("=", ID("y"), e) : e \in E }
           \cup { BinaryOp("+", e, p) : e \in E, p \in PlainOperands }
           \cup { BinaryOp("*", p, e) : e \in E, p \in PlainOperands }
           \cup { FuncCallArgs("f", <<e>>) : e \in E }
           \cup { FuncCallArgs("f", <<p, e>>) : e \in UnaryExprs, p \in PlainOperands }

InitIncr ==
    /\ node \in NestedExprs(MaxNest)
    /\ opts \in { [DefaultOpts EXCEPT !.reduce_parentheses = b] : b \in BOOLEAN }
    /\ state = {}
    /\ skip = {}
    /\ indent_level = 0
    /\ pc = "start"
    /\ pos = 0
    /\ code = <<>>
    /\ buffer = <<>>
    /\ imports = <<>>
    /\ new_types = <<>>
    /\ ctx = [indent |-> 0]
    /\ fs = <<>>
    /\ out = <<>>
    /\ crun = NoRun
    /\ pyrun = NoRun

\* _generate_stmt on an expression statement: the visited expression is the
\* statement's line.
VisitExprStmt ==
    /\ pc = "start"
    /\ out' = visit_expr(node, opts.reduce_parentheses)
    /\ pc' = "done"
    /\ UNCHANGED <<node, opts, state, skip, indent_level, crun, pyrun, pos,
                 code, buffer, imports, new_types, ctx, fs>>

NextIncr == VisitExprStmt

SpecIncr == InitIncr /\ [][NextIncr]_vars

\* n is an increment or a decrement.
IsIncrement(n) == n.kind = "UnaryOp" /\ n.op \in IncrementOps

\* Some node strictly inside n is an increment or a decrement, so that its
\* value is used by the expression around it.
RECURSIVE HasUsedIncrement(_)
HasUsedIncrement(n) ==
    LET Under(c) == IsIncrement(c) \/ HasUsedIncrement(c) IN
    CASE n.kind = "BinaryOp" -> Under(n.left) \/ Under(n.right)
      [] n.kind = "Assignment" -> Under(n.lvalue) \/ Under(n.rvalue)
      [] n.kind = "UnaryOp" -> Under(n.expr)
      [] n.kind = "FuncCall" -> \E i \in 1 .. Len(n.args) : Under(n.args[i])
      [] OTHER -> FALSE

\* The rendered tokens hold a compound assignment by one.
HasCompoundStep(toks) ==
    \E i \in 1 .. (Len(toks) - 1) : toks[i] \in {"+=", "-="} /\ toks[i + 1] = "1"

\* C20: an increment or decrement whose value is used by the expression
\* around it (right-hand side of an assignment, call argument, operand of a
\* binary operator) is never rendered as a compound assignment inside that
\* expression.
C20_NoEmbeddedCompound ==
    (pc = "done" /\ HasUsedIncrement(node)) => ~ HasCompoundStep(out)

\* The complement the code does satisfy: an increment standing alone as a
\* statement is rendered as a compound assignment.
UnusedIncrementRewritten ==
    (pc = "done" /\ IsIncrement(node)) => HasCompoundStep(out)

----------------------------------------------------------------------------
(* The context flags along the prototype of a function definition:         *)
(* visit(..., flag=...), visit_FuncDef, _generate_type, visit_ParamList.   *)

\* Largest number of parameters in a parameter list of the inputs.
MaxParams == 2

\* A declaration whose type carries a FuncDecl modifier: a function, or a
\* pointer to a function, with the parameter declarations args.
FuncDecl(name, args) ==
    [kind |-> "Decl", name |-> name, type |-> "int", init |-> None,
     modifier |-> "FuncDecl", args |-> args]

\* A declaration of a plain object: no modifier on the way to its type.
ParamDecl(name) ==
    [kind |-> "Decl", name |-> name, type |-> "int", init |-> None,
     modifier |-> "TypeDecl", args |-> <<>>]

RECURSIVE ParamLists(_, _)
ParamLists(pool, len) ==
    IF len = 0 THEN {<<>>}
    ELSE { Append(l, p) : l \in ParamLists(pool, len - 1), p \in pool }

PlainParams == {ParamDecl("a"), ParamDecl("b")}

\* Parameters: plain ones, and pointers to functions over plain parameters.
CallbackParams ==
    PlainParams
    \cup { FuncDecl("cb", l) : l \in UNION { ParamLists(PlainParams, k) : k \in 0 .. MaxParams } }

\* The declarators of the input function definitions.
Prototypes ==
    { FuncDecl("f", l) : l \in UNION { ParamLists(CallbackParams, k) : k \in 0 .. MaxParams } }

\* One call of visit with a flag that has not returned: the flag, the
\* declarations it walks, the one it stands at, and self._state on entry.
Frame(flag, decls, before) ==
    [flag |-> flag, decls |-> decls, idx |-> 1, before |-> before]

InitFlags ==
    /\ node \in Prototypes
    /\ opts \in { [DefaultOpts EXCEPT !.use_type_hints = b] : b \in BOOLEAN }
    /\ state = {}
    /\ skip = {}
    /\ indent_level = 0
    /\ pc = "start"
    /\ pos = <<>>
    /\ code = <<>>
    /\ buffer = <<>>
    /\ imports = <<>>
    /\ new_types = <<>>
    /\ ctx = [indent |-> 0]
    /\ fs = <<>>
    /\ out = <<>>
    /\ crun = NoRun
    /\ pyrun = NoRun

\* visit_FuncDef: visit(n.decl, parent=n, flag=Context.FuncProto) is entered.
VisitProto ==
    /\ pc = "start"
    /\ state' = FlagOnEntry(state, "FuncProto")
    /\ pos' = <<Frame("FuncProto", <<node>>, state)>>
    /\ pc' = "visit"
    /\ UNCHANGED <<node, opts, skip, indent_level, out, crun, pyrun,
                   code, buffer, imports, new_types, ctx, fs>>

\* visit_ParamList: visit(param, parent=n) on a parameter without a FuncDecl
\* modifier; no flag is passed.
VisitPlainParam ==
    /\ pc = "visit" /\ pos # <<>>
    /\ LET top == pos[Len(pos)] IN
       /\ top.idx <= Len(top.decls)
       /\ top.decls[top.idx].modifier # "FuncDecl"
       /\ pos' = [pos EXCEPT ![Len(pos)].idx = @ + 1]
    /\ UNCHANGED <<node, opts, state, skip, indent_level, pc, out, crun, pyrun,
                   code, buffer, imports, new_types, ctx, fs>>

\* _generate_type at a FuncDecl modifier:
\* visit(modifier.args, parent=parent, flag=Context.FuncArgs) is entered.
VisitArgs ==
    /\ pc = "visit" /\ pos # <<>>
    /\ LET top == pos[Len(pos)] IN
       /\ top.idx <= Len(top.decls)
       /\ top.decls[top.idx].modifier = "FuncDecl"
       /\ state' = FlagOnEntry(state, "FuncArgs")
       /\ pos' = Append(pos, Frame("FuncArgs", top.decls[top.idx].args, state))
    /\ UNCHANGED <<node, opts, skip, indent_level, pc, out, crun, pyrun,
                   code, buffer, imports, new_types, ctx, fs>>

\* visit(): the visit method has returned, the flag is cleared and the
\* caller goes on to its next declaration.  out records the flag with
\* self._state as it was on entry and as it is on return.
VisitFlagReturn ==
    /\ pc = "visit" /\ pos # <<>>
    /\ LET top == pos[Len(pos)]
           rest == SubSeq(pos, 1, Len(pos) - 1) IN
       /\ top.idx > Len(top.decls)
       /\ state' = FlagOnExit(state, top.flag)
       /\ out' = Append(out, [flag |-> top.flag, before |-> top.before, after |-> state'])
       /\ pos' = IF rest = <<>> THEN rest
                 ELSE [rest EXCEPT ![Len(rest)].idx = @ + 1]
       /\ pc' = IF rest = <<>> THEN "done" ELSE pc
    /\ UNCHANGED <<node, opts, skip, indent_level, crun, pyrun,
                   code, buffer, imports, new_types, ctx, fs>>

NextFlags == VisitProto \/ VisitPlainParam \/ VisitArgs \/ VisitFlagReturn

SpecFlags == InitFlags /\ [][NextFlags]_vars

\* C21: after every call of visit with a context flag, the set of context
\* flags equals the set before the call, also when the flag was already
\* set on entry (a parameter list inside a parameter list).
C21_FlagsRestored ==
    \A k \in 1 .. Len(out) : out[k].after = out[k].before

\* What the code does restore: a call entered with its flag not yet set
\* returns with the flags it was entered with.
FlagsRestoredWhenFresh ==
    \A k \in 1 .. Len(out) :
        out[k].flag \notin out[k].before => out[k].after = out[k].before

----------------------------------------------------------------------------
(* The skip set along a switch that holds switches: skip(), visit_Switch,  *)
(* _switch_to_ifs, visit_Case.                                             *)

\* Largest number of labels of an outer switch, and of statements ahead of
\* the break in each of its labels.
MaxArms == 2
MaxArmStmts == 1

\* self._skip.remove(name) without the name in the set.
KeyError == [form |-> "raise", error |-> "KeyError"]

\* The switches put inside a label: one rendered as match, one rendered as
\* guards with a default, one rendered as guards without a default.
InnerSwitches ==
    { Switch(ID("y"), <<Case(Literal(1), <<FuncCall("t"), Break>>)>>),
      Switch(ID("y"), <<Case(Literal(1), <<FuncCall("t")>>), Default(<<FuncCall("u"), Break>>)>>),
      Switch(ID("y"), <<Case(Literal(1), <<FuncCall("t")>>)>>) }

ArmItems == {FuncCall("s")} \cup InnerSwitches

RECURSIVE ArmPrefixes(_)
ArmPrefixes(len) ==
    IF len = 0 THEN {<<>>}
    ELSE { Append(p, i) : p \in ArmPrefixes(len - 1), i \in ArmItems }

\* The statements of a label of the outer switch: closed by a break.
ArmBodies == { Append(p, Break) : p \in UNION { ArmPrefixes(k) : k \in 0 .. MaxArmStmts } }

RECURSIVE ArmLists(_)
ArmLists(len) ==
    IF len = 0 THEN {<<>>}
    ELSE { Append(l, Case(Literal(len), b)) : l \in ArmLists(len - 1), b \in ArmBodies }

\* Outer switches: every case closed by a break, a default last or none.
NestingSwitches ==
    { Switch(ID("x"), l) : l \in UNION { ArmLists(k) : k \in 1 .. MaxArms } }
    \cup { Switch(ID("x"), Append(l, Default(b))) :
             l \in UNION { ArmLists(k) : k \in 1 .. MaxArms - 1 }, b \in ArmBodies }

\* `with self.skip(name)`: on entry the name is added.
SkipEnter(sk, name) == sk \cup {name}

\* `with self.skip(name)`: on exit the name is removed.
SkipExit(sk, name) == sk \ {name}

\* Whether visit_Switch on a switch without switches inside opens a skip
\* region: in the match form, and in the chain of guards at a default.
OpensSkipRegion(n) ==
    \/ has_fallthrough(n.stmt) = "false"
    \/ (has_fallthrough(n.stmt) = "true" /\ \E k \in 1 .. Len(n.stmt) : n.stmt[k].kind = "Default")

InitSkip ==
    /\ node \in NestingSwitches
    /\ opts = DefaultOpts
    /\ state = {"FuncBody"}
    /\ skip = {}
    /\ indent_level = 1
    /\ pc = "start"
    /\ pos = <<1, 1>>
    /\ code = <<>>
    /\ buffer = <<>>
    /\ imports = <<>>
    /\ new_types = <<>>
    /\ ctx = [indent |-> 0]
    /\ fs = <<>>
    /\ out = <<>>
    /\ crun = NoRun
    /\ pyrun = NoRun

\* visit_Switch, no fallthrough: `match <subject>:`, then
\* `with self.skip('Break')` is entered.
MatchEnter ==
    /\ pc = "start"
    /\ has_fallthrough(node.stmt) = "false"
    /\ out' = <<Line(0, <<"match">> \o visit_expr(node.cond, opts.reduce_parentheses) \o <<":">>)>>
    /\ skip' = SkipEnter(skip, "Break")
    /\ pc' = "arms"
    /\ UNCHANGED <<node, opts, state, indent_level, pos, crun, pyrun,
                   code, buffer, imports, new_types, ctx, fs>>

\* visit_Case / visit_Default: the label's own line.
ArmLabel ==
    /\ pc = "arms" /\ pos[1] <= Len(node.stmt) /\ pos[2] = 1
    /\ LET l == node.stmt[pos[1]] IN
       out' = Append(out, Line(1, <<"case">>
                                    \o (IF l.kind = "Case"
                                        THEN visit_expr(l.expr, opts.reduce_parentheses)
                                        ELSE <<"_">>)
                                    \o <<":">>))
    /\ pc' = "stmts"
    /\ UNCHANGED <<node, opts, state, skip, indent_level, pos, crun, pyrun,
                   code, buffer, imports, new_types, ctx, fs>>

\* visit_Case: _generate_stmt on a statement that is not a switch; visit()
\* reads self._skip as it is now.
ArmStmt ==
    /\ pc = "stmts" /\ pos[2] <= Len(node.stmt[pos[1]].stmts)
    /\ node.stmt[pos[1]].stmts[pos[2]].kind # "Switch"
    /\ out' = out \o Shift(generate_stmt(node.stmt[pos[1]].stmts[pos[2]], skip, opts), 2)
    /\ pos' = <<pos[1], pos[2] + 1>>
    /\ UNCHANGED <<node, opts, state, skip, indent_level, pc, crun, pyrun,
                   code, buffer, imports, new_types, ctx, fs>>

\* visit_Case: _generate_stmt on a switch; its visit_Switch runs to its
\* return, leaving its skip region if it entered one.
ArmSwitch ==
    /\ pc = "stmts" /\ pos[2] <= Len(node.stmt[pos[1]].stmts)
    /\ node.stmt[pos[1]].stmts[pos[2]].kind = "Switch"
    /\ LET inner == node.stmt[pos[1]].stmts[pos[2]] IN
       /\ out' = out \o Shift(SwitchText(visit_Switch(inner, skip, opts)).lines, 2)
       /\ skip' = IF OpensSkipRegion(inner)
                  THEN SkipExit(SkipEnter(skip, "Break"), "Break") ELSE skip
    /\ pos' = <<pos[1], pos[2] + 1>>
    /\ UNCHANGED <<node, opts, state, indent_level, pc, crun, pyrun,
                   code, buffer, imports, new_types, ctx, fs>>

\* visit_Case returns: visit_Compound goes on to the next label.
ArmReturn ==
    /\ pc = "stmts" /\ pos[2] > Len(node.stmt[pos[1]].stmts)
    /\ pos' = <<pos[1] + 1, 1>>
    /\ pc' = "arms"
    /\ UNCHANGED <<node, opts, state, skip, indent_level, out, crun, pyrun,
                   code, buffer, imports, new_types, ctx, fs>>

\* The skip region of the outer switch is left: self._skip.remove('Break').
MatchExit ==
    /\ pc = "arms" /\ pos[1] > Len(node.stmt)
    /\ "Break" \in skip
    /\ skip' = SkipExit(skip, "Break")
    /\ out' = nstrip(out)
    /\ pc' = "done"
    /\ UNCHANGED <<node, opts, state, indent_level, pos, crun, pyrun,
                   code, buffer, imports, new_types, ctx, fs>>

\* The same exit with 'Break' no longer in the set: set.remove raises.
MatchExitRaise ==
    /\ pc = "arms" /\ pos[1] > Len(node.stmt)
    /\ "Break" \notin skip
    /\ pc' = KeyError.error
    /\ UNCHANGED <<node, opts, state, skip, indent_level, pos, out, crun, pyrun,
                   code, buffer, imports, new_types, ctx, fs>>

NextSkip ==
    \/ MatchEnter \/ ArmLabel \/ ArmStmt \/ ArmSwitch \/ ArmReturn
    \/ MatchExit \/ MatchExitRaise

SpecSkip == InitSkip /\ [][NextSkip]_vars

\* C22: the skip set after a skip region equals the set at its entry, also
\* when a switch is rendered inside a case of a break-terminated switch:
\* inside the outer region breaks stay suppressed after the inner switch has
\* returned, and leaving the outer region does not fail.
C22_SkipRegionRestored ==
    /\ pc \in {"arms", "stmts"} => "Break" \in skip
    /\ \A k \in 1 .. Len(out) : out[k].toks # <<"break">>
    /\ pc # KeyError.error
    /\ pc = "done" => skip = {}

\* What the code does keep: an outer switch without a skip region inside it
\* suppresses its breaks and leaves the set as it found it.
SkipRestoredWithoutNesting ==
    (\A i \in 1 .. Len(node.stmt) : \A j \in 1 .. Len(node.stmt[i].stmts) :
        node.stmt[i].stmts[j].kind = "Switch" => ~ OpensSkipRegion(node.stmt[i].stmts[j]))
    => C22_SkipRegionRestored

----------------------------------------------------------------------------
(* The indentation depth along a pass: indent(), _generate_stmt,           *)
(* visit_FuncDef, visit_Compound, visit_For, visit_While, visit_DoWhile,   *)
(* _generate_struct_union_enum.                                            *)

\* Depth to which blocks and loops are nested in the input bodies.
MaxBlockDepth == 2

Compound(items) == [kind |-> "Compound", items |-> items]

While(cond, stmt) == [kind |-> "While", cond |-> cond, stmt |-> stmt]

DoWhile(cond, stmt) == [kind |-> "DoWhile", cond |-> cond, stmt |-> stmt]

\* A declaration of a struct type with its member declarations.
StructDecl(name, decls) == [kind |-> "Struct", name |-> name, decls |-> decls]

\* `self._indent_level += 1` under a condition: indent() on entry,
\* visit_Compound's do_indent, the aggregate body.
IndentEnter(level, cond) == IF cond THEN level + 1 ELSE level

\* Mutation of IndentExit: the depth is decreased whatever the condition.
IndentExitAlways(level, cond) == level - 1

\* `self._indent_level -= 1` under the same condition.
IndentExit(level, cond) == IF cond THEN level - 1 ELSE level

\* `self._indent_level = indent`: the depth saved on entry is put back.
IndentRestore(level, saved) == saved

\* The statements a visit walks into, in order.
Children(n) ==
    CASE n.kind = "FileAST" -> n.ext
      [] n.kind = "FuncDef" -> <<Compound(n.body)>>
      [] n.kind = "Compound" -> n.items
      [] n.kind \in {"For", "While", "DoWhile"} -> <<n.stmt>>
      [] n.kind = "Struct" -> n.decls
      [] OTHER -> <<>>

\* add_indent as the parent passes it to _generate_stmt for its child.
AddIndent(parent) == parent.kind \in {"For", "While", "DoWhile"}

\* One visit that has not returned: its node, the children it walks, the
\* one it stands at, the depth on entry, and whether it deepened.
Visit(n, before, deepened) ==
    [node |-> n, items |-> Children(n), idx |-> 1, before |-> before, deepened |-> deepened]

\* A returned visit: the node's kind, its parent's, the depth on entry and
\* on return, and the depth its first line was written at.
Returned(n, parent, before, after, depth) ==
    [kind |-> n.kind, parent |-> parent.kind, before |-> before, after |-> after,
     depth |-> depth]

BlockLeaves == {FuncCall("s"), StructDecl("P", <<Decl("a", None)>>), Decl("y", Literal(1))}

RangeLoop(stmt) ==
    For(Assignment("=", ID("i"), Literal(0)), BinaryOp("<", ID("i"), ID("n")),
        UnaryOp("p++", ID("i")), stmt)

FallbackLoop(stmt) ==
    For(Assignment("=", ID("i"), Literal(0)), BinaryOp("<", ID("j"), ID("n")),
        UnaryOp("p++", ID("i")), stmt)

RECURSIVE BlockStmts(_)
BlockStmts(d) ==
    IF d = 0 THEN BlockLeaves
    ELSE LET S == BlockStmts(d - 1) IN
         BlockLeaves
         \cup {Compound(<<>>)}
         \cup { Compound(<<s>>) : s \in S }
         \cup { Compound(<<s, FuncCall("s")>>) : s \in S }
         \cup { RangeLoop(s) : s \in S }
         \cup { FallbackLoop(s) : s \in S }
         \cup { While(BinaryOp("<", ID("i"), ID("n")), s) : s \in S }
         \cup { DoWhile(c, s) : s \in S, c \in {BinaryOp("<", ID("i"), ID("n"))} }

\* Translation units: a function over one statement, then an empty one.
BlockUnits ==
    { FileAST(<<FuncDef("f", <<>>, <<s>>), FuncDef("g", <<>>, <<>>)>>) :
        s \in BlockStmts(MaxBlockDepth) }

InitIndent ==
    /\ node \in BlockUnits
    /\ opts = DefaultOpts
    /\ state = {}
    /\ skip = {}
    /\ indent_level = 0
    /\ pc = "walk"
    /\ pos = <<Visit(node, 0, FALSE)>>
    /\ code = <<>>
    /\ buffer = <<>>
    /\ imports = <<>>
    /\ new_types = <<>>
    /\ ctx = [indent |-> 0]
    /\ fs = <<>>
    /\ out = <<>>
    /\ crun = NoRun
    /\ pyrun = NoRun

\* The visit the pass stands in, and the child it is about to visit.
TopVisit == pos[Len(pos)]

HasChild == pc = "walk" /\ pos # <<>> /\ TopVisit.idx <= Len(TopVisit.items)

NextChild == TopVisit.items[TopVisit.idx]

\* pos after the visit on top has returned to its caller.
Popped == 
    LET rest == SubSeq(pos, 1, Len(pos) - 1) IN
    IF rest = <<>> THEN rest ELSE [rest EXCEPT ![Len(rest)].idx = @ + 1]

\* visit_FuncDef: the declarator is visited, the depth is set to 0 and
\* visit(n.body, flag=Context.FuncBody) is entered.
EnterFuncDef ==
    /\ HasChild /\ NextChild.kind = "FuncDef"
    /\ indent_level' = 0
    /\ state' = FlagOnEntry(state, "FuncBody")
    /\ pos' = Append(pos, Visit(NextChild, indent_level, FALSE))
    /\ UNCHANGED <<node, opts, skip, pc, out, crun, pyrun,
                   code, buffer, imports, new_types, ctx, fs>>

\* visit_Compound: one deeper unless the parent is a Compound.
EnterCompound ==
    /\ HasChild /\ NextChild.kind = "Compound"
    /\ LET do_indent == TopVisit.node.kind # "Compound" IN
       /\ indent_level' = IndentEnter(indent_level, do_indent)
       /\ pos' = Append(pos, Visit(NextChild, indent_level, do_indent))
    /\ UNCHANGED <<node, opts, state, skip, pc, out, crun, pyrun,
                   code, buffer, imports, new_types, ctx, fs>>

\* visit_For / visit_While / visit_DoWhile up to the visit of the body.
EnterLoop ==
    /\ HasChild /\ NextChild.kind \in {"For", "While", "DoWhile"}
    /\ pos' = Append(pos, Visit(NextChild, indent_level, FALSE))
    /\ UNCHANGED <<node, opts, state, skip, indent_level, pc, out, crun, pyrun,
                   code, buffer, imports, new_types, ctx, fs>>

\* _generate_struct_union_enum: one deeper for the members.
EnterAggregate ==
    /\ HasChild /\ NextChild.kind = "Struct"
    /\ indent_level' = IndentEnter(indent_level, TRUE)
    /\ pos' = Append(pos, Visit(NextChild, indent_level, TRUE))
    /\ UNCHANGED <<node, opts, state, skip, pc, out, crun, pyrun,
                   code, buffer, imports, new_types, ctx, fs>>

\* _generate_stmt on a statement without statements inside: the indent of
\* its line is taken under `with self.indent(add_indent)`.
VisitLeaf ==
    /\ HasChild /\ NextChild.kind \in {"FuncCall", "Decl"}
    /\ LET a == AddIndent(TopVisit.node)
           depth == IndentEnter(indent_level, a) IN
       out' = Append(out, Returned(NextChild, TopVisit.node, indent_level,
                                   IndentExit(depth, a), depth))
    /\ pos' = [pos EXCEPT ![Len(pos)].idx = @ + 1]
    /\ UNCHANGED <<node, opts, state, skip, indent_level, pc, crun, pyrun,
                   code, buffer, imports, new_types, ctx, fs>>

AtReturnOf(kinds) ==
    /\ pc = "walk" /\ pos # <<>>
    /\ TopVisit.idx > Len(TopVisit.items)
    /\ TopVisit.node.kind \in kinds

\* The record of the visit on top returning with the depth `after`.
ReturnOfTop(after) ==
    Returned(TopVisit.node, pos[Len(pos) - 1].node, TopVisit.before, after, TopVisit.before)

\* visit_Compound / _generate_struct_union_enum return.
ReturnBlock ==
    /\ AtReturnOf({"Compound", "Struct"})
    /\ indent_level' = IndentExit(indent_level, TopVisit.deepened)
    /\ out' = Append(out, ReturnOfTop(indent_level'))
    /\ pos' = Popped
    /\ UNCHANGED <<node, opts, state, skip, pc, crun, pyrun,
                   code, buffer, imports, new_types, ctx, fs>>

\* visit_For returns: in the fallback form the step, the test and the
\* break are written first and the saved depth is put back.
ReturnFor ==
    /\ AtReturnOf({"For"})
    /\ indent_level' = IF for_to_range(TopVisit.node, opts) # None THEN indent_level
                       ELSE IndentRestore(IndentEnter(indent_level, TRUE), TopVisit.before)
    /\ out' = Append(out, ReturnOfTop(indent_level'))
    /\ pos' = Popped
    /\ UNCHANGED <<node, opts, state, skip, pc, crun, pyrun,
                   code, buffer, imports, new_types, ctx, fs>>

\* visit_While returns.
ReturnWhile ==
    /\ AtReturnOf({"While"})
    /\ out' = Append(out, ReturnOfTop(indent_level))
    /\ pos' = Popped
    /\ UNCHANGED <<node, opts, state, skip, indent_level, pc, crun, pyrun,
                   code, buffer, imports, new_types, ctx, fs>>

\* visit_DoWhile returns: the test and the break are written two levels
\* deep and the saved depth is put back.
ReturnDoWhile ==
    /\ AtReturnOf({"DoWhile"})
    /\ indent_level' = IndentRestore(IF TopVisit.node.cond # None
                                     THEN (TopVisit.before + 1) + 1 ELSE indent_level,
                                     TopVisit.before)
    /\ out' = Append(out, ReturnOfTop(indent_level'))
    /\ pos' = Popped
    /\ UNCHANGED <<node, opts, state, skip, pc, crun, pyrun,
                   code, buffer, imports, new_types, ctx, fs>>

\* visit_FuncDef returns: an empty body gets `pass` under `with indent()`.
ReturnFuncDef ==
    /\ AtReturnOf({"FuncDef"})
    /\ state' = FlagOnExit(state, "FuncBody")
    /\ out' = Append(out, ReturnOfTop(IF TopVisit.node.body = <<>>
                                      THEN IndentExit(IndentEnter(indent_level, TRUE), TRUE)
                                      ELSE indent_level))
    /\ pos' = Popped
    /\ UNCHANGED <<node, opts, skip, indent_level, pc, crun, pyrun,
                   code, buffer, imports, new_types, ctx, fs>>

\* visit_FileAST returns.
ReturnFile ==
    /\ AtReturnOf({"FileAST"})
    /\ pos' = <<>>
    /\ pc' = "done"
    /\ UNCHANGED <<node, opts, state, skip, indent_level, out, crun, pyrun,
                   code, buffer, imports, new_types, ctx, fs>>

NextIndent ==
    \/ EnterFuncDef \/ EnterCompound \/ EnterLoop \/ EnterAggregate \/ VisitLeaf
    \/ ReturnBlock \/ ReturnFor \/ ReturnWhile \/ ReturnDoWhile
    \/ ReturnFuncDef \/ ReturnFile

SpecIndent == InitIndent /\ [][NextIndent]_vars

----------------------------------------------------------------------------
(* While loops: _extract_effects and visit_While, with the reference       *)
(* semantics of the C loop and of the rendered host loop.                  *)

TernaryOp(cond, iftrue, iffalse) ==
    [kind |-> "TernaryOp", cond |-> cond, iftrue |-> iftrue, iffalse |-> iffalse]

\* What _extract_effects returns: the pre-effects and the post-effects (no
\* node: None; one node: the node; several: a Compound of them) and the
\* pure expression.
Effects(pre, post, expr) == [err |-> FALSE, pre |-> pre, post |-> post, expr |-> expr]

\* _extract_effects raised.
NoEffects == [err |-> TRUE, pre |-> <<>>, post |-> <<>>, expr |-> None]

\* _extract_effects.
RECURSIVE extract_effects(_)
extract_effects(n) ==
    IF n.kind = "UnaryOp"
    THEN IF n.op \in {"p++", "p--"} THEN Effects(<<>>, <<n>>, n.expr)
         ELSE IF n.op \in {"--", "++"} THEN Effects(<<n>>, <<n>>, n.expr)
         ELSE NoEffects
    ELSE IF n.kind = "BinaryOp"
    THEN LET l == extract_effects(n.left)
             r == extract_effects(n.right) IN
         IF l.err \/ r.err THEN NoEffects
         ELSE Effects(l.pre \o r.pre, l.post \o r.post, BinaryOp(n.op, l.expr, r.expr))
    ELSE IF is_simple_node(n) THEN Effects(<<>>, <<>>, n)
    ELSE NoEffects

\* The statement lines of visit(pre) / visit(post).
EffectLines(nodes, rp) == [k \in 1 .. Len(nodes) |-> visit_expr(nodes[k], rp)]

\* visit_While.  The returned text is kept as the host statements it
\* spells: <pre> / while <cond>: <body> / <post> at the end of the body.
visit_While(n, st, o) ==
    LET e == extract_effects(n.cond) IN
    IF e.err THEN NotImplementedError
    ELSE [form |-> "while",
          pre |-> EffectLines(e.pre, o.reduce_parentheses),
          cond |-> parenthesize_if(visit_expr(e.expr, o.reduce_parentheses),
                                   ~ is_single_node(e.expr)),
          body |-> visit_clause(n.stmt, "While", st, o),
          post |-> EffectLines(e.post, o.reduce_parentheses)]

\* C: value of an operand of the test and the variables after it.
CEvalOperand(e, env) ==
    IF e.kind = "UnaryOp"
    THEN LET v == e.expr.name
             step == IF e.op \in {"p++", "++"} THEN 1 ELSE -1 IN
         [val |-> IF e.op \in {"p++", "p--"} THEN env[v] ELSE env[v] + step,
          env |-> [env EXCEPT ![v] = @ + step]]
    ELSE [val |-> CValue(e, env), env |-> env]

\* C: truth of the test `left <op> right` and the variables after it.
CEvalTest(cond, env) ==
    LET l == CEvalOperand(cond.left, env)
        r == CEvalOperand(cond.right, l.env) IN
    [val |-> Compare(cond.op, l.val, r.val), env |-> r.env]

RECURSIVE PyExecAll(_, _)
\* Effect of host statement lines run in order.
PyExecAll(lines, env) ==
    IF lines = <<>> THEN env ELSE PyExecAll(Tail(lines), PyExec(Head(lines), env))

IncDecOps == {"p++", "++", "p--", "--"}

CompareOps == {"<", "<=", ">", "!="}

WhileBounds == {ID("n"), Literal(2)}

\* Tests that are comparisons of i, plain or incremented / decremented in
\* the test, with a bound on either side.
ComparisonTests ==
    { BinaryOp(op, l, b) :
        op \in CompareOps, b \in WhileBounds,
        l \in {ID("i")} \cup { UnaryOp(u, ID("i")) : u \in IncDecOps } }
    \cup { BinaryOp(op, b, UnaryOp(u, ID("i"))) :
             op \in CompareOps, b \in WhileBounds, u \in IncDecOps }

\* Tests of other shapes: simple nodes, nested binary operations, and the
\* composites that are neither.
OtherTests ==
    { ID("i"), Literal(1), UnaryOp("*", ID("i")), UnaryOp("&", ID("i")),
      UnaryOp("!", ID("i")), UnaryOp("-", ID("i")), UnaryOp("p++", ID("i")),
      Assignment("=", ID("i"), ID("n")),
      TernaryOp(ID("i"), ID("j"), ID("n")) }
    \cup { BinaryOp("&&", BinaryOp("<", ID("i"), ID("n")), e) :
             e \in { ID("j"), UnaryOp("!", ID("j")), UnaryOp("p--", ID("j")),
                     UnaryOp("*", ID("j")), Assignment("=", ID("j"), ID("n")),
                     TernaryOp(ID("i"), ID("j"), ID("n")),
                     BinaryOp("<", UnaryOp("-", ID("j")), ID("n")) } }

WhileLoops == { While(c, FuncCall("body")) : c \in ComparisonTests \cup OtherTests }

\* The executions are observed for the comparison tests.
IsObserved(n) == n.cond \in ComparisonTests

InitWhile ==
    /\ node \in WhileLoops
    /\ opts = DefaultOpts
    /\ state = {"FuncBody"}
    /\ skip = {}
    /\ indent_level = 1
    /\ pc = "start"
    /\ pos = 0
    /\ code = <<>>
    /\ buffer = <<>>
    /\ imports = <<>>
    /\ new_types = <<>>
    /\ ctx = [indent |-> 0]
    /\ fs = <<>>
    /\ out = <<>>
    /\ crun \in IF IsObserved(node)
                THEN { [RunWith(nv) EXCEPT !.env["i"] = iv] :
                         nv \in 0 .. MaxInt, iv \in 0 .. MaxInt }
                ELSE {NoRun}
    /\ pyrun = crun

\* generator.visit(while_node): visit_While returns its text.
VisitWhile ==
    /\ pc = "start"
    /\ ~ extract_effects(node.cond).err
    /\ out' = visit_While(node, state, opts)
    /\ pc' = IF IsObserved(node) THEN "run_c" ELSE "done"
    /\ UNCHANGED <<node, opts, state, skip, indent_level, crun, pyrun, pos,
                   code, buffer, imports, new_types, ctx, fs>>

\* generator.visit(while_node): _extract_effects raises.
VisitWhileRaise ==
    /\ pc = "start"
    /\ extract_effects(node.cond).err
    /\ pc' = "raised"
    /\ UNCHANGED <<node, opts, state, skip, indent_level, out, crun, pyrun, pos,
                   code, buffer, imports, new_types, ctx, fs>>

\* C: the test is evaluated with its effects and holds: the body runs.
CWhileIter ==
    /\ pc = "run_c" /\ crun.status \in {"idle", "loop"}
    /\ CEvalTest(node.cond, crun.env).val
    /\ Len(crun.trace) < MaxIter
    /\ LET env == CEvalTest(node.cond, crun.env).env IN
       crun' = [crun EXCEPT !.env = env, !.trace = Append(@, env), !.status = "loop"]
    /\ UNCHANGED <<node, opts, state, skip, indent_level, pc, out, pyrun, pos,
                   code, buffer, imports, new_types, ctx, fs>>

\* C: the test is evaluated with its effects and fails: the loop is left.
CWhileExit ==
    /\ pc = "run_c" /\ crun.status \in {"idle", "loop"}
    /\ ~ CEvalTest(node.cond, crun.env).val
    /\ crun' = [crun EXCEPT !.env = CEvalTest(node.cond, crun.env).env, !.status = "done"]
    /\ pc' = "run_py"
    /\ UNCHANGED <<node, opts, state, skip, indent_level, out, pyrun, pos,
                   code, buffer, imports, new_types, ctx, fs>>

\* The C loop is still running after MaxIter iterations: observation ends.
CWhileCut ==
    /\ pc = "run_c" /\ crun.status \in {"idle", "loop"}
    /\ CEvalTest(node.cond, crun.env).val
    /\ Len(crun.trace) = MaxIter
    /\ crun' = [crun EXCEPT !.status = "cut"]
    /\ pc' = "run_py"
    /\ UNCHANGED <<node, opts, state, skip, indent_level, out, pyrun, pos,
                   code, buffer, imports, new_types, ctx, fs>>

\* Host: the pre-effect lines run once, ahead of the loop.
HostPre ==
    /\ pc = "run_py" /\ pyrun.status = "idle"
    /\ pyrun' = [pyrun EXCEPT !.env = PyExecAll(out.pre, @), !.status = "loop"]
    /\ UNCHANGED <<node, opts, state, skip, indent_level, pc, out, crun, pos,
                   code, buffer, imports, new_types, ctx, fs>>

\* Host: the pure condition holds: the body runs, then the post-effect
\* lines at its end.
HostRound ==
    /\ pc = "run_py" /\ pyrun.status = "loop"
    /\ PyTest(out.cond, pyrun.env)
    /\ Len(pyrun.trace) < MaxIter
    /\ pyrun' = [pyrun EXCEPT !.trace = Append(@, pyrun.env),
                              !.env = PyExecAll(out.post, @)]
    /\ UNCHANGED <<node, opts, state, skip, indent_level, pc, out, crun, pos,
                   code, buffer, imports, new_types, ctx, fs>>

\* Host: the pure condition fails: the loop is left.
HostLeave ==
    /\ pc = "run_py" /\ pyrun.status = "loop"
    /\ ~ PyTest(out.cond, pyrun.env)
    /\ pyrun' = [pyrun EXCEPT !.status = "done"]
    /\ pc' = "done"
    /\ UNCHANGED <<node, opts, state, skip, indent_level, out, crun, pos,
                   code, buffer, imports, new_types, ctx, fs>>

\* The host loop is still running after MaxIter iterations: observation ends.
HostCut ==
    /\ pc = "run_py" /\ pyrun.status = "loop"
    /\ PyTest(out.cond, pyrun.env)
    /\ Len(pyrun.trace) = MaxIter
    /\ pyrun' = [pyrun EXCEPT !.status = "cut"]
    /\ pc' = "done"
    /\ UNCHANGED <<node, opts, state, skip, indent_level, out, crun, pos,
                   code, buffer, imports, new_types, ctx, fs>>

NextWhile ==
    \/ VisitWhile \/ VisitWhileRaise
    \/ CWhileIter \/ CWhileExit \/ CWhileCut
    \/ HostPre \/ HostRound \/ HostLeave \/ HostCut

SpecWhile == InitWhile /\ [][NextWhile]_vars

\* The test compares an incremented or decremented variable: the forms
\* `++v`, `--v` (pre) and `v++`, `v--` (post).
HasEmbeddedStep(n, ops) ==
    /\ n.cond \in ComparisonTests
    /\ \/ (n.cond.left.kind = "UnaryOp" /\ n.cond.left.op \in ops)
       \/ (n.cond.right.kind = "UnaryOp" /\ n.cond.right.op \in ops)

\* Both executions ran the body equally often, saw the same values of i in
\* it, and, when the loops ended, left the same value of i.
SameLoopBehaviour ==
    /\ pyrun.status = crun.status
    /\ ValuesOf(pyrun, "i") = ValuesOf(crun, "i")
    /\ crun.status = "done" => pyrun.env["i"] = crun.env["i"]

\* C24: for a while loop whose test is a comparison with an embedded
\* increment or decrement of v, in pre-form or post-form, the rendered
\* program runs the body as often as the C loop, with the same value of v
\* visible in each run of the body and the same value of v after the loop.
C24_WhileStepFaithful ==
    (pc = "done" /\ HasEmbeddedStep(node, IncDecOps)) => SameLoopBehaviour

\* What the code does achieve: the pre-forms are faithful.
PreFormWhileFaithful ==
    (pc = "done" /\ HasEmbeddedStep(node, {"++", "--"})) => SameLoopBehaviour

\* The post-forms keep the number of runs of the body.
PostFormSameCount ==
    (pc = "done" /\ HasEmbeddedStep(node, {"p++", "p--"})) =>
        /\ pyrun.status = crun.status
        /\ Len(pyrun.trace) = Len(crun.trace)

\* The test, or an operand reached through its binary operators, is a
\* composite that is neither a binary operation, an increment / decrement,
\* nor a simple node.
RECURSIVE HasUnsupportedComposite(_)
HasUnsupportedComposite(e) ==
    IF e.kind = "BinaryOp"
    THEN HasUnsupportedComposite(e.left) \/ HasUnsupportedComposite(e.right)
    ELSE ~ (IsIncrement(e) \/ is_simple_node(e))

\* C25: rendering a while loop whose test holds such a composite raises the
\* unsupported-construct error and produces no text for the loop; a test
\* made only of simple nodes, binary operations and increments /
\* decrements never raises.
C25_RaisesIffUnsupported ==
    pc # "start" =>
        /\ pc = "raised" <=> HasUnsupportedComposite(node.cond)
        /\ pc = "raised" => out = <<>>

\* What the code does: the same with the dereference and address-of
\* operators, which are simple nodes, counted among the unsupported.
RaisesIffUnsupportedOrPointerOp ==
    pc # "start" =>
        /\ pc = "raised" <=>
              \/ HasUnsupportedComposite(node.cond)
              \/ \E e \in {node.cond} \cup (IF node.cond.kind = "BinaryOp"
                                            THEN {node.cond.left, node.cond.right} ELSE {}) :
                    e.kind = "UnaryOp" /\ e.op \in {"&", "*"}
        /\ pc = "raised" => out = <<>>

----------------------------------------------------------------------------
(* For loops of every shape: whether _for_to_range decides.                *)

\* Initializers, tests and steps, canonical and not: absent, over another
\* variable, over an operand that is not a plain variable.
ShapeInits ==
    { None,
      Assignment("=", ID("i"), Literal(0)),
      Assignment("=", ID("j"), Literal(0)),
      Assignment("=", UnaryOp("*", ID("i")), Literal(0)),
      DeclList(<<Decl("i", Literal(0))>>),
      DeclList(<<Decl("i", Literal(0)), Decl("j", Literal(0))>>) }

ShapeConds ==
    { None,
      ID("i"),
      BinaryOp("<", ID("i"), ID("n")),
      BinaryOp("<", ID("j"), ID("n")),
      BinaryOp("<", BinaryOp("+", ID("i"), Literal(1)), ID("n")),
      BinaryOp(">", Literal(3), ID("i")) }

ShapeNexts ==
    { None,
      UnaryOp("p++", ID("i")),
      UnaryOp("--", ID("j")),
      UnaryOp("p++", UnaryOp("*", ID("i"))),
      UnaryOp("-", ID("i")),
      Assignment("+=", ID("i"), Literal(1)) }

ShapeLoops ==
    { For(i, c, x, FuncCall("body")) : i \in ShapeInits, c \in ShapeConds, x \in ShapeNexts }

InitShape ==
    /\ node \in ShapeLoops
    /\ opts = DefaultOpts
    /\ state = {"FuncBody"}
    /\ skip = {}
    /\ indent_level = 1
    /\ pc = "start"
    /\ pos = 0
    /\ code = <<>>
    /\ buffer = <<>>
    /\ imports = <<>>
    /\ new_types = <<>>
    /\ ctx = [indent |-> 0]
    /\ fs = <<>>
    /\ out = <<>>
    /\ crun = NoRun
    /\ pyrun = NoRun

\* generator.visit(for_node): visit_For returns its text.
VisitForShape ==
    /\ pc = "start"
    /\ RangeTest(node) # "raise"
    /\ out' = visit_For(node, state, opts)
    /\ pc' = "done"
    /\ UNCHANGED <<node, opts, state, skip, indent_level, crun, pyrun, pos,
                   code, buffer, imports, new_types, ctx, fs>>

\* generator.visit(for_node): _for_to_range reads `.name` from a node that
\* has none.
VisitForShapeRaise ==
    /\ pc = "start"
    /\ RangeTest(node) = "raise"
    /\ pc' = AttributeError.error
    /\ UNCHANGED <<node, opts, state, skip, indent_level, out, crun, pyrun, pos,
                   code, buffer, imports, new_types, ctx, fs>>

NextShape == VisitForShape \/ VisitForShapeRaise

SpecShape == InitShape /\ [][NextShape]_vars

\* The initializer is a simple assignment to a variable or a declaration
\* of one variable; the variable it names.
ShapeInitVar(n) ==
    IF n.init.kind = "Assignment" /\ n.init.lvalue.kind = "ID" THEN {n.init.lvalue.name}
    ELSE IF n.init.kind = "DeclList" /\ Len(n.init.decls) = 1 THEN {n.init.decls[1].name}
    ELSE {}

\* The canonical pattern: all three clauses present, the step an increment
\* or decrement of a plain variable, the test a binary operation with a
\* plain variable on the left, and the three naming one variable.
IsCanonical(n) ==
    /\ n.next.kind = "UnaryOp" /\ n.next.op \in IncDecOps /\ n.next.expr.kind = "ID"
    /\ n.cond.kind = "BinaryOp" /\ n.cond.left.kind = "ID"
    /\ ShapeInitVar(n) = {n.next.expr.name}
    /\ n.cond.left.name = n.next.expr.name

\* C26: every for loop that does not satisfy the canonical pattern (a
\* clause missing, the step's operand or the test's left operand not a
\* plain variable, the clauses naming different variables) is rendered by
\* the fallback form; deciding whether the pattern matches never raises.
C26_FallbackWithoutError ==
    pc # "start" =>
        /\ pc = "done"
        /\ ~ IsCanonical(node) => out.form = "while_true"

\* What the code does: when the decision is reached without an error, the
\* loops outside the pattern get the fallback form and the others the range.
FallbackWhenDecided ==
    pc = "done" => (out.form = "while_true" <=> ~ IsCanonical(node))

\* The line of a plain statement appears in the block under some guard.
UnderSomeGuard(stmt, entries) ==
    \E e \in 1 .. Len(entries) :
        \E l \in 1 .. Len(entries[e].block) :
            entries[e].block[l].toks = <<stmt.name, "(", ")">>

\* C27: in the if/elif lowering of a switch, either generation fails or
\* every statement of every case appears under at least one guard of the
\* output: a final case (or run of fallthrough cases) without a closing
\* break, or one that falls into the default label, is not dropped.
C27_NoCaseDropped ==
    (pc = "done" /\ out.form = "ifs") =>
        \A k \in 1 .. Len(node.stmt) :
            node.stmt[k].kind = "Case" =>
                \A j \in 1 .. Len(node.stmt[k].stmts) :
                    node.stmt[k].stmts[j].kind = "FuncCall" =>
                        UnderSomeGuard(node.stmt[k].stmts[j], out.entries)

----------------------------------------------------------------------------
(* Asynchronous method stubs. *)

\* The declared result of a method is a promise.
ReturnsPromise(m) ==
    m.type.kind = "TypeReference" /\ JoinChars(m.type.typeName.escapedText) = "Promise"

\* The stub line of a method of a class at top level, as the method arm
\* renders it once the `def` of its buffer was rewritten to `async def`.
LastLine(lines) == lines[Len(lines)]

AsyncStubLine(m) ==
    LastLine(flush(visit_Method(m, [TopCtx EXCEPT !.indent = 1, !.has_methods = TRUE,
                                                  !.is_async = TRUE],
                                NewEngine).g).code)

\* The methods of a class-like statement.
MethodsOf(s) ==
    IF s.kind \in {"ClassDeclaration", "InterfaceDeclaration"}
    THEN {s.members[k] : k \in {j \in 1 .. Len(s.members) :
                                   s.members[j].kind = "MethodDeclaration"}}
    ELSE {}

\* C28: a method stub is rendered as `async def` only if that method's own
\* return type is a Promise; a Promise type in an earlier sibling or in an
\* enclosing or earlier declaration never makes a later method async.
C28_AsyncOnlyForOwnPromise ==
    pc = "traversed" =>
        \A k \in 1 .. Len(node.statements) :
            \A m \in MethodsOf(node.statements[k]) :
                (\E l \in 1 .. Len(code) : code[l] = AsyncStubLine(m))
                    => ReturnsPromise(m)

\* What the code does keep: while no promise type was visited anywhere in
\* the file, no method stub is asynchronous.
RECURSIVE MentionsPromise(_)
MentionsPromise(stmts) ==
    IF stmts = <<>> THEN FALSE
    ELSE (Head(stmts).kind = "FunctionDeclaration" /\ ReturnsPromise(Head(stmts)))
         \/ MentionsPromise(Tail(stmts))

NoAsyncWithoutPromise ==
    (pc = "traversed" /\ ~ MentionsPromise(node.statements)) =>
        \A k \in 1 .. Len(node.statements) :
            \A m \in MethodsOf(node.statements[k]) :
                \A l \in 1 .. Len(code) : code[l] # AsyncStubLine(m)

----------------------------------------------------------------------------
(* Passes of one generator instance: visit, visit_FileAST, visit_FuncDef.  *)
(* The instance's fields are state (_state), skip (_skip), indent_level    *)
(* (_indent_level) and ctx.parent (_parent, the class name of the node it  *)
(* points to).  A pass is generator.visit(ast, parent=None); code logs the *)
(* finished passes, out holds the lines of the pass under way.  No visit   *)
(* method, and neither context manager, has a try/finally: an exception    *)
(* leaves every field as it is at the raise.                               *)

\* Most passes made on one instance.
MaxPasses == 2

\* The fields a pass can change.
Context == [state |-> state, skip |-> skip, indent_level |-> indent_level,
            parent |-> ctx.parent]

\* PyGenerator.__init__: the context of a new instance.
FreshContext == [state |-> {}, skip |-> {}, indent_level |-> 0, parent |-> "None"]

\* The state while the prototype of a function is visited: visit(n.decl,
\* flag=FuncProto), and FuncArgs around the parameter list.
ProtoState(st) == FlagOnEntry(FlagOnEntry(st, "FuncProto"), "FuncArgs")

\* The state while the body is visited: the prototype's flags cleared on
\* the way back, then visit(n.body, flag=FuncBody).
BodyState(st) ==
    FlagOnEntry(FlagOnExit(FlagOnExit(st, "FuncArgs"), "FuncProto"), "FuncBody")

\* visit_FuncDef on an instance whose _state is st and _skip is sk.
FuncDefText(n, st, sk, o) ==
    DefText(<<n.name, "(">> \o ParamText(n.params, ProtoState(st), o) \o <<")">>,
            BodyText(n.body, BodyState(st), sk, o))

\* One finished pass.
Pass(unit, before, form, lines, after) ==
    [unit |-> unit, before |-> before, form |-> form, lines |-> lines, after |-> after]

InitAbort ==
    /\ node = FileAST(<<>>)
    /\ opts = [DefaultOpts EXCEPT !.keep_empty_decl = FALSE, !.type_hint_decl = FALSE]
    /\ state = {}
    /\ skip = {}
    /\ indent_level = 0
    /\ pc = "idle"
    /\ pos = 0
    /\ out = <<>>
    /\ crun = NoRun
    /\ pyrun = NoRun
    /\ code = <<>>
    /\ buffer = <<>>
    /\ imports = <<>>
    /\ new_types = <<>>
    /\ ctx = [parent |-> "None", prev_parent |-> "None", before |-> FreshContext]
    /\ fs = <<>>

\* generator.visit(ast, parent=None) is called: prev_parent, self._parent =
\* self._parent, None, and visit_FileAST starts.
PassBegin ==
    /\ pc \in {"idle", "returned", "aborted"}
    /\ Len(code) < MaxPasses
    /\ \E unit \in RenderUnits : node' = unit
    /\ ctx' = [parent |-> "None", prev_parent |-> ctx.parent, before |-> Context]
    /\ pos' = 1
    /\ out' = <<>>
    /\ pc' = "visit_FileAST"
    /\ UNCHANGED <<opts, state, skip, indent_level, crun, pyrun, code, buffer,
                   imports, new_types, fs>>

\* visit_FileAST, a declaration: s += self.visit(ext, parent=n) + '\n\n\n'.
\* The parent pointer is set to the file and put back.
VisitExtDecl ==
    /\ pc = "visit_FileAST"
    /\ pos <= Len(node.ext)
    /\ node.ext[pos].kind = "Decl"
    /\ out' = out \o <<Line(0, visit_Decl(node.ext[pos], FALSE, "FileAST", state, opts)),
                       Line(0, <<>>), Line(0, <<>>)>>
    /\ pos' = pos + 1
    /\ UNCHANGED <<node, opts, state, skip, indent_level, pc, crun, pyrun, code,
                   buffer, imports, new_types, ctx, fs>>

\* visit_FileAST, a function that renders: both flags were set and cleared,
\* self._indent_level = 0 was assigned and the body's block entered and
\* left, the parent pointer is back where it was.
VisitExtFuncDef ==
    /\ pc = "visit_FileAST"
    /\ pos <= Len(node.ext)
    /\ node.ext[pos].kind = "FuncDef"
    /\ FuncDefText(node.ext[pos], state, skip, opts).form = "text"
    /\ out' = out \o FuncDefText(node.ext[pos], state, skip, opts).lines \o <<Line(0, <<>>)>>
    /\ state' = FlagOnExit(BodyState(state), "FuncBody")
    /\ indent_level' = IndentExit(IndentEnter(0, TRUE), TRUE)
    /\ pos' = pos + 1
    /\ UNCHANGED <<node, opts, skip, pc, crun, pyrun, code, buffer, imports,
                   new_types, ctx, fs>>

\* visit_FileAST, a function with a statement in its body that raises: the
\* exception leaves visit_Switch, _generate_stmt, visit_Compound, visit,
\* visit_FuncDef, visit, visit_FileAST and the outermost visit.  FuncBody
\* is set, the body's block is entered, the parent pointer is at the body.
VisitExtFuncDefRaise ==
    /\ pc = "visit_FileAST"
    /\ pos <= Len(node.ext)
    /\ node.ext[pos].kind = "FuncDef"
    /\ FuncDefText(node.ext[pos], state, skip, opts).form = "raise"
    /\ state' = BodyState(state)
    /\ indent_level' = IndentEnter(0, TRUE)
    /\ ctx' = [ctx EXCEPT !.parent = "Compound"]
    /\ code' = Append(code, Pass(node, ctx.before, "raise", <<>>,
                                 [state |-> state', skip |-> skip,
                                  indent_level |-> indent_level', parent |-> "Compound"]))
    /\ pc' = "aborted"
    /\ UNCHANGED <<node, opts, skip, pos, out, crun, pyrun, buffer, imports,
                   new_types, fs>>

\* visit_FileAST returns s and the outermost visit puts the parent pointer
\* back: self._parent = prev_parent.
PassReturn ==
    /\ pc = "visit_FileAST"
    /\ pos > Len(node.ext)
    /\ ctx' = [ctx EXCEPT !.parent = ctx.prev_parent]
    /\ code' = Append(code, Pass(node, ctx.before, "text", out,
                                 [state |-> state, skip |-> skip,
                                  indent_level |-> indent_level,
                                  parent |-> ctx.prev_parent]))
    /\ pc' = "returned"
    /\ UNCHANGED <<node, opts, state, skip, indent_level, pos, out, crun, pyrun,
                   buffer, imports, new_types, fs>>

NextAbort ==
    PassBegin \/ VisitExtDecl \/ VisitExtFuncDef \/ VisitExtFuncDefRaise \/ PassReturn

SpecAbort == InitAbort /\ [][NextAbort]_vars

\* C29: when a pass is aborted by an unsupported-construct error raised
\* inside a subtree, the generator's context (role flags, skip set,
\* indentation depth, parent pointer) is left equal to its value before the
\* pass, and a later pass on the same instance renders exactly what a fresh
\* instance renders.
C29_AbortRestoresContext ==
    \A k \in 1 .. Len(code) :
        /\ code[k].form = "raise" => code[k].after = code[k].before
        /\ (k > 1 /\ code[k - 1].form = "raise") =>
                code[k].form = visit_FileAST(code[k].unit.ext, opts).form
                /\ (code[k].form = "text" =>
                        code[k].lines = visit_FileAST(code[k].unit.ext, opts).lines)

\* What the code does keep: a pass that returns leaves the context of a
\* fresh instance as it was, and the pass after it renders as the first.
ReturnedPassRestoresContext ==
    \A k \in 1 .. Len(code) :
        /\ (code[k].form = "text" /\ code[k].before = FreshContext) =>
                code[k].after = code[k].before
        /\ code[k].before = FreshContext =>
                code[k].form = visit_FileAST(code[k].unit.ext, opts).form
                /\ (code[k].form = "text" =>
                        code[k].lines = visit_FileAST(code[k].unit.ext, opts).lines)

----------------------------------------------------------------------------
(* Reading rendered expression text with the host grammar: the operator    *)
(* precedence of Python expressions, where the comparisons share one level *)
(* below the bitwise operators.  A run of comparisons is read left to      *)
(* right, as the other operators are.                                      *)

host_precedence ==
    [op \in DOMAIN precedence_map |->
        CASE op = "||" -> 0
          [] op = "&&" -> 1
          [] op \in {"==", "!=", ">", ">=", "<", "<="} -> 2
          [] op = "|" -> 3
          [] op = "^" -> 4
          [] op = "&" -> 5
          [] op \in {">>", "<<"} -> 6
          [] op \in {"+", "-"} -> 7
          [] OTHER -> 8]

RECURSIVE HostParseExpr(_, _), HostParseLoop(_, _, _), HostParsePrimary(_)
HostParsePrimary(toks) ==
    IF Head(toks) = "("
    THEN LET r == HostParseExpr(Tail(toks), 0)
         IN  [tree |-> r.tree, rest |-> Tail(r.rest)]
    ELSE [tree |-> LeafOfToken(Head(toks)), rest |-> Tail(toks)]

HostParseLoop(lhs, toks, minPrec) ==
    IF toks # <<>> /\ IsOperatorToken(Head(toks))
       /\ host_precedence[COperator(Head(toks))] >= minPrec
    THEN LET op == COperator(Head(toks))
             r == HostParseExpr(Tail(toks), host_precedence[op] + 1)
         IN  HostParseLoop(BinaryOp(op, lhs, r.tree), r.rest, minPrec)
    ELSE [tree |-> lhs, rest |-> toks]

HostParseExpr(toks, minPrec) ==
    LET p == HostParsePrimary(toks)
    IN  HostParseLoop(p.tree, p.rest, minPrec)

HostParse(toks) == HostParseExpr(toks, 0).tree

\* C30: for every binary-expression tree over the operators of the
\* precedence table, the rendered text read with the host grammar's
\* operator precedence groups the operands the same way as the C source
\* tree: the emitted parentheses are sufficient in the host grammar.
C30_HostGrouping ==
    pc = "done" => HostParse(out) = HostTree(node)

\* The operators of a tree.
RECURSIVE OpsOf(_)
OpsOf(n) ==
    IF n.kind = "BinaryOp" THEN {n.op} \cup OpsOf(n.left) \cup OpsOf(n.right) ELSE {}

\* What the code does keep: a tree that does not mix a comparison with a
\* bitwise operator reads the same in both grammars.
HostGroupingWithoutMix ==
    (pc = "done" /\ ~ ({"&", "=="} \subseteq OpsOf(node))) =>
        HostParse(out) = HostTree(node)

====
